---- MODULE Spec2Model ----
(***************************************************************************)
(* The job scheduler of dspy-as-a-service: the embedded Job Store          *)
(* (core/storage/local.py), the worker pool (core/worker/engine.py) and    *)
(* the HTTP control surface (core/api/app.py), as one state machine.       *)
(* Every Job Store call is one atomic step (the store's lock), every       *)
(* scheduler operation is one atomic step (the queue lock); HTTP handlers  *)
(* and worker threads interleave between those steps.                      *)
(***************************************************************************)
EXTENDS Integers, Sequences, FiniteSets, TLC

(***************************************************************************)
(* Bounds of the model and constants of the program.                       *)
(***************************************************************************)
MaxClock == 2
MaxChildEvents == 1
DEFAULT_WORKER_CONCURRENCY == 2
MAX_PROGRESS_EVENTS == 5000
MAX_LOG_ENTRIES == 5000

JobIds == {"j1", "j2"}
PreIds == {"j1"}
Workers == 1..DEFAULT_WORKER_CONCURRENCY
Handlers == {"h1"}
None == "None"
NoEvent == 0

TERMINAL_STATUSES == {"success", "failed", "cancelled"}
JobStatus == {"pending", "validating", "running", "success", "failed", "cancelled"}

MsgValidating == "Validating payload"
MsgRunning == "Running optimization"
MsgSuccess == "Optimization completed successfully"
MsgCancelled == "Cancelled by user"
MsgRestart == "Job interrupted by service restart"
MsgNoPayload == "Job has no payload"
MsgNotFound == "Job not found"
MsgInvalid == "Payload validation failed"
MsgChildError == "Dataset column mismatch"
MsgExitCode == "Job subprocess exited with code 1"
MsgNoResult == "Job subprocess finished without a result payload"
EvProgressName == "optimizer_progress"
CancellationError == "CancellationError"
SystemExit == "SystemExit"
KeyboardInterrupt == "KeyboardInterrupt"
ShutdownExceptions == {SystemExit, KeyboardInterrupt}
\* f"Job interrupted by service shutdown: {exc}"
MsgShutdown(exc) ==
    IF exc = SystemExit
    THEN "Job interrupted by service shutdown: SystemExit"
    ELSE "Job interrupted by service shutdown: KeyboardInterrupt"

\* BackgroundWorker objects this process can construct, and None for the
\* variables that refer to one.
MaxPools == 2
PoolIds == 1..MaxPools
\* _worker_lock, BackgroundWorker._queue_lock and _activity_lock, LocalDBJobStore._lock
Locks == {"worker_lock", "queue_lock", "activity_lock", "store_lock"}
LockThreads == {"lifespan", "handler1", "handler2", "worker"}
\* latest_metrics={} of a new row, and a thread that is in no store call
NoMetrics == [ k \in {} |-> 0 ]
\* Times of the idle loop are counted in ticks of 0.05 s, the smallest
\* WORKER_POLL_INTERVAL the repository configures.
TicksPerSecond == 20
HEARTBEAT_IDLE_CYCLES == 150
MaxHeartbeats == 2
\* WORKER_POLL_INTERVAL "2.0" and WORKER_STALE_THRESHOLD "600"
DefaultSettings == [ poll_interval |-> 2 * TicksPerSecond, stale_threshold |-> 600 * TicksPerSecond ]
NoCall == [ op |-> "none", job_id |-> None, metrics |-> NoMetrics, read |-> NoMetrics ]
NoWorker == 0

\* time.monotonic() readings start at 1: 0 stands for no _last_activity entry.
NoActivity == 0

\* WORKER_STALE_THRESHOLD in clock ticks, and the readings of the clock that
\* let a touch grow stale.
WORKER_STALE_THRESHOLD == 1
MaxHealthClock == WORKER_STALE_THRESHOLD + 3

VARIABLES
    jobs,            \* jobs table: job_id -> row, for the rows that exist
    progress_events, \* job_progress_events: job_id -> the timestamps of its rows
    log_entries,     \* job_logs: job_id -> level -> number of rows
    clock,           \* datetime.now(timezone.utc)
    phase,           \* lifespan: boot, orphans, pending, enqueue, serving, stopping, stopped
    orphan_count,    \* return value of recover_orphaned_jobs
    pending_ids,     \* ids returned by recover_pending_jobs, not yet enqueued
    worker_concurrency, \* WORKER_CONCURRENCY, the environment's pool size
    running,         \* BackgroundWorker._running
    pending_jobs,    \* BackgroundWorker._pending_jobs
    processing_jobs, \* BackgroundWorker._processing_jobs
    cancel_events,   \* BackgroundWorker._cancel_events: job_id -> Event object
    events,          \* the Event objects ever created: index -> is_set()
    w_pc,            \* position of each worker thread
    w_job,           \* job_id local of _worker_loop / _process_job
    w_event,         \* cancel_event local of _process_job
    w_result,        \* result_dict
    w_error,         \* subprocess_error is not None
    w_exc,           \* the exception caught by process_job's except clause
    child,           \* run_process of each worker: none, alive, exit0, exit1, killed
    child_sent,      \* telemetry events the child has put so far
    event_queue,     \* event_queue of each worker's child
    h_pc,            \* position of each HTTP handler
    h_op,            \* endpoint of the request being served or last answered
    h_job,           \* job_id path parameter of the request being served
    h_resp,          \* status code of the handler's last response
    used_ids,        \* job ids uuid4() has produced or the database held at start
    recovered,       \* ids that recover_pending_jobs returned
    cancelled_pending, \* ids that cancel_job removed from _pending_jobs
    cancelled_running, \* ids in process whose cancel_job came while their child ran
    pools,           \* BackgroundWorker objects: _running, _threads, is_alive(), _last_activity
    pool_count,      \* BackgroundWorker objects constructed so far
    global_worker,   \* the module global _worker
    app_worker,      \* the variable worker of create_app
    lock_holder,     \* each threading.Lock: the thread inside its with block, or None
    lock_steps,      \* each thread: the lock operations left of the call it is in
    latest_metrics,  \* the latest_metrics column of the jobs table: job_id -> map
    metrics_call,    \* each thread: the latest_metrics call it is inside, or NoCall
    settings,        \* WORKER_POLL_INTERVAL and WORKER_STALE_THRESHOLD, in ticks
    idle_cycles      \* idle_cycles of each thread's _worker_loop

vars == << jobs, progress_events, log_entries, clock, phase, orphan_count, pending_ids,
           running, pending_jobs, processing_jobs, cancel_events, events,
           w_pc, w_job, w_event, w_result, w_error, w_exc, child, child_sent,
           event_queue, h_pc, h_op, h_job, h_resp, used_ids, recovered,
           cancelled_pending, cancelled_running, worker_concurrency,
           pools, pool_count, global_worker, app_worker, lock_holder, lock_steps,
           latest_metrics, metrics_call, settings, idle_cycles >>

store_vars == << jobs, progress_events, log_entries >>
sched_vars == << running, pending_jobs, processing_jobs, cancel_events, events >>
worker_vars == << w_pc, w_job, w_event, w_result, w_error, w_exc, child, child_sent,
                  event_queue >>
http_vars == << h_pc, h_op, h_job, h_resp >>
boot_vars == << phase, orphan_count, pending_ids, recovered, worker_concurrency >>
ghost_vars == << cancelled_pending, cancelled_running >>
lock_vars == << lock_holder, lock_steps, latest_metrics, metrics_call, settings,
               idle_cycles >>
pool_vars == << pools, pool_count, global_worker, app_worker, lock_vars >>

(***************************************************************************)
(* Request payloads (core/models.py).  Of a payload the model keeps the    *)
(* four model settings of RunRequest, each a ModelConfig or null; its      *)
(* other fields are taken to be well formed.  A JSON object is a function  *)
(* from its keys to "config" or "null".                                    *)
(***************************************************************************)
FieldNames == { "model_settings", "reflection_model_settings",
                "prompt_model_settings", "task_model_settings" }

\* Field(alias=...)
Alias(name) ==
    CASE name = "model_settings" -> "model_config"
      [] name = "reflection_model_settings" -> "reflection_model_config"
      [] name = "prompt_model_settings" -> "prompt_model_config"
      [] name = "task_model_settings" -> "task_model_config"

\* model_settings: ModelConfig; the other three: Optional[ModelConfig] = None
Required == { "model_settings" }

\* The empty object; a row's payload column before submit_job writes it
NoPayload == [ k \in {} |-> "null" ]

\* The value validation reads for a field: populate_by_name=True lets the
\* field's own name stand in when the alias is not a key of the body.
FieldInput(body, name) ==
    IF Alias(name) \in DOMAIN body THEN body[Alias(name)]
    ELSE IF name \in DOMAIN body THEN body[name]
    ELSE "absent"

\* RunRequest validation: FastAPI answers 422 when it fails
Validates(body) ==
    \A name \in Required : FieldInput(body, name) = "config"

\* The RunRequest object: its attributes are the field names
RunRequest(body) ==
    [ name \in FieldNames |->
        IF FieldInput(body, name) = "config" THEN "config" ELSE "null" ]

\* payload.model_dump(mode="json", by_alias=...): every field, None ones too
model_dump(payload, by_alias) ==
    IF by_alias
    THEN [ key \in { Alias(name) : name \in FieldNames } |->
             payload[CHOOSE name \in FieldNames : Alias(name) = key] ]
    ELSE [ key \in FieldNames |-> payload[key] ]

\* tests' BASE_PAYLOAD: model_config only
BASE_PAYLOAD == [ key \in { "model_config" } |-> "config" ]

(***************************************************************************)
(* Job Store (core/storage/local.py).  A row is a record; a table is a     *)
(* function whose domain is the set of job ids that have a row.            *)
(***************************************************************************)
NewRow(now) ==
    [ status |-> "pending", created_at |-> now, started_at |-> 0, completed_at |-> 0,
      message |-> None, result |-> None, payload |-> NoPayload ]

create_job(js, job_id, now) ==
    [ k \in DOMAIN js \cup {job_id} |-> IF k = job_id THEN NewRow(now) ELSE js[k] ]

\* update_job(job_id, **kwargs): a missing row is left alone, silently.
update_job(js, job_id, kwargs) ==
    IF job_id \in DOMAIN js
    THEN [ js EXCEPT ![job_id] =
             [ f \in DOMAIN js[job_id] |->
                 IF f \in DOMAIN kwargs THEN kwargs[f] ELSE js[job_id][f] ] ]
    ELSE js

job_exists(js, job_id) == job_id \in DOMAIN js

delete_job(js, job_id) == [ k \in DOMAIN js \ {job_id} |-> js[k] ]

LogLevels == {"INFO", "ERROR"}

NoRows == [ level \in LogLevels |-> 0 ]

\* delete_job also deletes the job's rows of job_logs and job_progress_events.
DeleteLogs(logs, job_id) == [ logs EXCEPT ![job_id] = NoRows ]

DeleteEvents_job_row_only(table, job_id) == table

DeleteEvents(table, job_id) == [ table EXCEPT ![job_id] = {} ]

\* recover_orphaned_jobs with the query narrowed to status == "running".
recover_orphaned_jobs_running_only(js, now) ==
    [ k \in DOMAIN js |->
        IF js[k].status = "running"
        THEN [ js[k] EXCEPT !.status = "failed",
                            !.message = MsgRestart,
                            !.completed_at = now ]
        ELSE js[k] ]

Orphaned(js) == { k \in DOMAIN js : js[k].status \in {"running", "validating"} }

recover_orphaned_jobs(js, now) ==
    [ k \in DOMAIN js |->
        IF k \in Orphaned(js)
        THEN [ js[k] EXCEPT !.status = "failed", !.message = MsgRestart,
                            !.completed_at = now ]
        ELSE js[k] ]

Min(S) == CHOOSE x \in S : \A y \in S : x <= y

\* (job_id, timestamp) is the primary key of job_progress_events: the insert of
\* a second row with the same key fails and record_progress changes nothing.
ProgressKeyTaken(table, job_id, now) == now \in table[job_id]

\* The job row after record_progress(job_id, message, metrics).
record_progress(js, job_id, message) ==
    IF job_id \in DOMAIN js /\ message # None
    THEN [ js EXCEPT ![job_id].message = message ]
    ELSE js

InsertProgress_uncapped(table, job_id, now) ==
    [ table EXCEPT ![job_id] = table[job_id] \cup {now} ]

\* job_progress_events after record_progress: the insert, then the cap.
InsertProgress(table, job_id, now) ==
    LET rows == table[job_id] \cup {now}
    IN  [ table EXCEPT ![job_id] =
            IF Cardinality(rows) > MAX_PROGRESS_EVENTS
            THEN rows \ {Min(rows)}
            ELSE rows ]

LogCount(logs, job_id) == logs[job_id]["INFO"] + logs[job_id]["ERROR"]

append_log_uncapped(logs, job_id, level) ==
    { [ logs EXCEPT ![job_id][level] = @ + 1 ] }

\* job_logs after append_log: the insert, then the cap.  The row evicted is the
\* one with the oldest timestamp, which the caller may have supplied: any row
\* of the job can be that one.
append_log(logs, job_id, level) ==
    LET added == [ logs EXCEPT ![job_id][level] = @ + 1 ]
    IN  IF LogCount(added, job_id) > MAX_LOG_ENTRIES
        THEN { [ added EXCEPT ![job_id][oldest] = @ - 1 ] :
                 oldest \in { l \in LogLevels : added[job_id][l] > 0 } }
        ELSE { added }

status_to_job_status(status) == IF status \in JobStatus THEN status ELSE "pending"

\* recover_pending_jobs(): the pending ids, oldest first.
recover_pending_jobs(js) ==
    LET P == { k \in DOMAIN js : js[k].status = "pending" }
    IN  CHOOSE s \in [ 1..Cardinality(P) -> P ] :
            /\ \A k \in P : \E i \in DOMAIN s : s[i] = k
            /\ \A a, b \in DOMAIN s : a < b => js[s[a]].created_at <= js[s[b]].created_at

(***************************************************************************)
(* The database a starting service may find: rows left by an earlier run.  *)
(***************************************************************************)
\* result.model_dump() of a RunResponse, or of a GridSearchResponse with at
\* least one completed pair
RunResult == "result"

\* result.model_dump() of a GridSearchResponse with completed_pairs = 0: every
\* pair failed and pair_results holds the error of each
GridResultAllPairsFailed == "grid_result_completed_pairs_0"

StoredRow(status, payload) ==
    [ status |-> status, created_at |-> 1,
      started_at |-> IF status \in {"running", "success"} THEN 1 ELSE 0,
      completed_at |-> IF status \in TERMINAL_STATUSES THEN 1 ELSE 0,
      message |-> CASE status = "pending" -> None
                    [] status = "validating" -> MsgValidating
                    [] status = "running" -> MsgRunning
                    [] status = "success" -> MsgSuccess
                    [] status = "failed" -> MsgChildError
                    [] status = "cancelled" -> MsgCancelled,
      result |-> IF status = "success" THEN RunResult ELSE None,
      payload |-> payload ]

\* A payload matters for the rows a worker will load: the pending ones.
StoredPayload == model_dump(RunRequest(BASE_PAYLOAD), FALSE)

StoredRows ==
    { StoredRow(s, StoredPayload) : s \in JobStatus } \cup { StoredRow("pending", NoPayload) }

Databases(ids) == UNION { [ D -> StoredRows ] : D \in SUBSET ids }

Range(s) == { s[i] : i \in DOMAIN s }

\* A BackgroundWorker object not constructed yet
NoPoolObject ==
    [ running |-> FALSE, threads |-> {}, alive |-> [ w \in Workers |-> FALSE ],
      last_activity |-> [ w \in Workers |-> NoActivity ], pending |-> << >> ]

\* The state of a process that has just been started on the tables
\* << db, table, logs >> of the database file.
InitOn(db, table, logs, concurrency, now) ==
    /\ jobs = db
    /\ progress_events = table
    /\ log_entries = logs
    /\ clock = now
    /\ worker_concurrency = concurrency
    /\ phase = "boot"
    /\ orphan_count = 0
    /\ pending_ids = << >>
    /\ running = FALSE
    /\ pending_jobs = << >>
    /\ processing_jobs = {}
    /\ cancel_events = [ k \in {} |-> NoEvent ]
    /\ events = << >>
    /\ w_pc = [ w \in Workers |-> "unstarted" ]
    /\ w_job = [ w \in Workers |-> None ]
    /\ w_event = [ w \in Workers |-> NoEvent ]
    /\ w_result = [ w \in Workers |-> None ]
    /\ w_error = [ w \in Workers |-> FALSE ]
    /\ w_exc = [ w \in Workers |-> None ]
    /\ child = [ w \in Workers |-> "none" ]
    /\ child_sent = [ w \in Workers |-> 0 ]
    /\ event_queue = [ w \in Workers |-> << >> ]
    /\ h_pc = [ h \in Handlers |-> "idle" ]
    /\ h_op = [ h \in Handlers |-> None ]
    /\ h_job = [ h \in Handlers |-> None ]
    /\ h_resp = [ h \in Handlers |-> 0 ]
    /\ used_ids = DOMAIN db
    /\ recovered = {}
    /\ cancelled_pending = {}
    /\ cancelled_running = {}
    /\ pools = [ p \in PoolIds |-> NoPoolObject ]
    /\ pool_count = 0
    /\ global_worker = NoWorker
    /\ app_worker = NoWorker
    /\ lock_holder = [ l \in Locks |-> None ]
    /\ lock_steps = [ t \in LockThreads |-> << >> ]
    /\ latest_metrics = [ j \in JobIds |-> NoMetrics ]
    /\ metrics_call = [ t \in LockThreads |-> NoCall ]
    /\ settings = DefaultSettings
    /\ idle_cycles = [ w \in Workers |-> 0 ]

InitWith(db, concurrency, now) ==
    InitOn(db, [ j \in JobIds |-> {} ], [ j \in JobIds |-> NoRows ], concurrency, now)

\* The service as the test suite configures it: WORKER_CONCURRENCY=1.
Init == \E db \in Databases(PreIds) : InitWith(db, 1, 1)

\* The clock advances between any two steps.
TickTo(limit) ==
    /\ clock < limit
    /\ clock' = clock + 1
    /\ UNCHANGED << store_vars, sched_vars, worker_vars, http_vars, boot_vars, pool_vars,
                    ghost_vars, used_ids >>

Tick == TickTo(MaxClock)

(***************************************************************************)
(* Scheduler operations of BackgroundWorker, each under _queue_lock.       *)
(***************************************************************************)
enqueue_job_unguarded(job_id) ==
    /\ events' = Append(events, FALSE)
    /\ cancel_events' =
         [ k \in DOMAIN cancel_events \cup {job_id} |->
             IF k = job_id THEN Len(events) + 1 ELSE cancel_events[k] ]
    /\ pending_jobs' = Append(pending_jobs, job_id)
    /\ UNCHANGED << running, processing_jobs >>

enqueue_job(job_id) ==
    /\ events' = Append(events, FALSE)
    /\ cancel_events' =
         [ k \in DOMAIN cancel_events \cup {job_id} |->
             IF k = job_id THEN Len(events) + 1 ELSE cancel_events[k] ]
    /\ pending_jobs' =
         IF job_id \notin Range(pending_jobs) /\ job_id \notin processing_jobs
         THEN Append(pending_jobs, job_id)
         ELSE pending_jobs
    /\ UNCHANGED << running, processing_jobs >>

Without(s, x) == SelectSeq(s, LAMBDA y : y # x)

Discard(f, x) == [ k \in DOMAIN f \ {x} |-> f[k] ]

\* cancel_job that sets the Event and forgets the queue.
worker_cancel_job_flag_only(job_id) ==
    /\ events' = IF job_id \in DOMAIN cancel_events
                 THEN [ events EXCEPT ![cancel_events[job_id]] = TRUE ]
                 ELSE events
    /\ UNCHANGED << running, pending_jobs, processing_jobs, cancel_events >>

\* cancel_job(job_id): set the job's Event; a pending job leaves the queue.
worker_cancel_job(job_id) ==
    /\ events' = IF job_id \in DOMAIN cancel_events
                 THEN [ events EXCEPT ![cancel_events[job_id]] = TRUE ]
                 ELSE events
    /\ IF job_id \in Range(pending_jobs)
       THEN /\ pending_jobs' = Without(pending_jobs, job_id)
            /\ cancel_events' = Discard(cancel_events, job_id)
       ELSE UNCHANGED << pending_jobs, cancel_events >>
    /\ UNCHANGED << running, processing_jobs >>

mark_job_done(job_id) ==
    /\ processing_jobs' = processing_jobs \ {job_id}
    /\ cancel_events' = Discard(cancel_events, job_id)
    /\ UNCHANGED << running, pending_jobs, events >>

is_set(ev) == ev # NoEvent /\ events[ev]

(***************************************************************************)
(* lifespan: startup recovery, then the pool, then serving, then stop().   *)
(***************************************************************************)
lifespan_recover_orphaned ==
    /\ phase = "boot"
    /\ jobs' = recover_orphaned_jobs(jobs, clock)
    /\ orphan_count' = Cardinality(Orphaned(jobs))
    /\ phase' = "orphans"
    /\ UNCHANGED << progress_events, log_entries, clock, pending_ids, recovered,
                    worker_concurrency, pool_vars, sched_vars, worker_vars, http_vars, ghost_vars,
                    used_ids >>

lifespan_recover_pending ==
    /\ phase = "orphans"
    /\ pending_ids' = recover_pending_jobs(jobs)
    /\ recovered' = Range(recover_pending_jobs(jobs))
    /\ phase' = "pending"
    /\ UNCHANGED << store_vars, clock, orphan_count, worker_concurrency, pool_vars, sched_vars,
                    worker_vars, http_vars, ghost_vars, used_ids >>

\* get_worker creates the pool and start() launches its threads.
get_worker_start ==
    /\ phase = "pending"
    /\ running' = TRUE
    /\ w_pc' = [ w \in Workers |-> IF w <= worker_concurrency THEN "loop" ELSE "unstarted" ]
    /\ phase' = "enqueue"
    /\ UNCHANGED << store_vars, clock, orphan_count, pending_ids, recovered, worker_concurrency, pool_vars, pending_jobs,
                    processing_jobs, cancel_events, events, w_job, w_event, w_result,
                    w_error, w_exc, child, child_sent, event_queue, http_vars,
                    ghost_vars, used_ids >>

\* get_worker enqueues the recovered ids one by one, the threads already running.
get_worker_enqueue ==
    /\ phase = "enqueue"
    /\ pending_ids # << >>
    /\ enqueue_job(Head(pending_ids))
    /\ pending_ids' = Tail(pending_ids)
    /\ UNCHANGED << store_vars, clock, phase, orphan_count, recovered,
                    worker_concurrency, pool_vars, worker_vars, http_vars, ghost_vars, used_ids >>

lifespan_yield_before_enqueue ==
    /\ phase = "enqueue"
    /\ phase' = "serving"
    /\ UNCHANGED << store_vars, clock, orphan_count, pending_ids, recovered,
                    worker_concurrency, pool_vars, sched_vars, worker_vars, http_vars,
                    ghost_vars, used_ids >>

lifespan_yield ==
    /\ phase = "enqueue"
    /\ pending_ids = << >>
    /\ phase' = "serving"
    /\ UNCHANGED << store_vars, clock, orphan_count, pending_ids, recovered, worker_concurrency, pool_vars, sched_vars,
                    worker_vars, http_vars, ghost_vars, used_ids >>

\* stop(): self._running = False ...
stop_flag ==
    /\ phase = "serving"
    /\ \A h \in Handlers : h_pc[h] = "idle"
    /\ running' = FALSE
    /\ phase' = "stopping"
    /\ UNCHANGED << store_vars, clock, orphan_count, pending_ids, recovered, worker_concurrency, pool_vars, pending_jobs,
                    processing_jobs, cancel_events, events, worker_vars, http_vars,
                    ghost_vars, used_ids >>

stop_clear_flags_only ==
    /\ phase = "stopping"
    /\ pending_jobs' = pending_jobs
    /\ events' = [ i \in DOMAIN events |->
                     events[i] \/ \E k \in DOMAIN cancel_events : cancel_events[k] = i ]
    /\ phase' = "stopped"
    /\ UNCHANGED << store_vars, clock, orphan_count, pending_ids, recovered, worker_concurrency, pool_vars, running,
                    processing_jobs, cancel_events, worker_vars, http_vars, ghost_vars,
                    used_ids >>

\* ... then, under the lock, the queue is cleared and every Event is set.
stop_clear ==
    /\ phase = "stopping"
    /\ pending_jobs' = << >>
    /\ events' = [ i \in DOMAIN events |->
                     events[i] \/ \E k \in DOMAIN cancel_events : cancel_events[k] = i ]
    /\ phase' = "stopped"
    /\ UNCHANGED << store_vars, clock, orphan_count, pending_ids, recovered, worker_concurrency, pool_vars, running,
                    processing_jobs, cancel_events, worker_vars, http_vars, ghost_vars,
                    used_ids >>

(***************************************************************************)
(* Worker threads (BackgroundWorker._worker_loop and _process_job).        *)
(***************************************************************************)
Goto(w, pc) == w_pc' = [ w_pc EXCEPT ![w] = pc ]

Raise(w, exc) ==
    /\ w_exc' = [ w_exc EXCEPT ![w] = exc ]
    /\ Goto(w, "except")

worker_loop_peek(w) ==
    /\ w_pc[w] = "loop"
    /\ IF ~ running
       THEN /\ Goto(w, "exited")
            /\ UNCHANGED << sched_vars, w_job >>
       ELSE /\ pending_jobs # << >>
            /\ w_job' = [ w_job EXCEPT ![w] = Head(pending_jobs) ]
            /\ pending_jobs' = pending_jobs
            /\ processing_jobs' = processing_jobs \cup {Head(pending_jobs)}
            /\ Goto(w, "get_event")
            /\ UNCHANGED << running, cancel_events, events >>
    /\ UNCHANGED << store_vars, clock, boot_vars, pool_vars, w_event, w_result, w_error, w_exc,
                    child, child_sent, event_queue, http_vars, ghost_vars, used_ids >>

worker_loop_lifo(w) ==
    /\ w_pc[w] = "loop"
    /\ IF ~ running
       THEN /\ Goto(w, "exited")
            /\ UNCHANGED << sched_vars, w_job >>
       ELSE /\ pending_jobs # << >>
            /\ w_job' = [ w_job EXCEPT ![w] = pending_jobs[Len(pending_jobs)] ]
            /\ pending_jobs' = SubSeq(pending_jobs, 1, Len(pending_jobs) - 1)
            /\ processing_jobs' = processing_jobs \cup {pending_jobs[Len(pending_jobs)]}
            /\ Goto(w, "get_event")
            /\ UNCHANGED << running, cancel_events, events >>
    /\ UNCHANGED << store_vars, clock, boot_vars, pool_vars, w_event, w_result, w_error, w_exc,
                    child, child_sent, event_queue, http_vars, ghost_vars, used_ids >>

\* while self._running: job_id = self._get_next_job() ...
worker_loop(w) ==
    /\ w_pc[w] = "loop"
    /\ IF ~ running
       THEN /\ Goto(w, "exited")
            /\ UNCHANGED << sched_vars, w_job >>
       ELSE /\ pending_jobs # << >>
            /\ w_job' = [ w_job EXCEPT ![w] = Head(pending_jobs) ]
            /\ pending_jobs' = Tail(pending_jobs)
            /\ processing_jobs' = processing_jobs \cup {Head(pending_jobs)}
            /\ Goto(w, "get_event")
            /\ UNCHANGED << running, cancel_events, events >>
    /\ UNCHANGED << store_vars, clock, boot_vars, pool_vars, w_event, w_result, w_error, w_exc,
                    child, child_sent, event_queue, http_vars, ghost_vars, used_ids >>

\* with self._queue_lock: cancel_event = self._cancel_events.get(job_id)
process_job_get_event(w) ==
    /\ w_pc[w] = "get_event"
    /\ w_event' = [ w_event EXCEPT ![w] =
                      IF w_job[w] \in DOMAIN cancel_events
                      THEN cancel_events[w_job[w]] ELSE NoEvent ]
    /\ Goto(w, "check_cancel")
    /\ UNCHANGED << store_vars, clock, boot_vars, pool_vars, sched_vars, w_job, w_result, w_error,
                    w_exc, child, child_sent, event_queue, http_vars, ghost_vars,
                    used_ids >>

\* _check_cancel()  # before loading payload
process_job_check_cancel(w) ==
    /\ w_pc[w] = "check_cancel"
    /\ IF is_set(w_event[w])
       THEN Raise(w, CancellationError)
       ELSE Goto(w, "load") /\ UNCHANGED w_exc
    /\ UNCHANGED << store_vars, clock, boot_vars, pool_vars, sched_vars, w_job, w_event, w_result,
                    w_error, child, child_sent, event_queue, http_vars, ghost_vars,
                    used_ids >>

\* job_data = self._job_store.get_job(job_id); payload_dict = job_data.get("payload")
process_job_load(w) ==
    /\ w_pc[w] = "load"
    /\ IF ~ job_exists(jobs, w_job[w])
       THEN Raise(w, MsgNotFound)
       ELSE IF jobs[w_job[w]].payload = NoPayload
            THEN Raise(w, MsgNoPayload)
            ELSE Goto(w, "set_validating") /\ UNCHANGED w_exc
    /\ UNCHANGED << store_vars, clock, boot_vars, pool_vars, sched_vars, w_job, w_event, w_result,
                    w_error, child, child_sent, event_queue, http_vars, ghost_vars,
                    used_ids >>

\* update_job(job_id, status="validating", message="Validating payload")
process_job_set_validating(w) ==
    /\ w_pc[w] = "set_validating"
    /\ jobs' = update_job(jobs, w_job[w],
                          [ status |-> "validating", message |-> MsgValidating ])
    /\ Goto(w, "validate")
    /\ UNCHANGED << progress_events, log_entries, clock, boot_vars, pool_vars, sched_vars, w_job,
                    w_event, w_result, w_error, w_exc, child, child_sent, event_queue,
                    http_vars, ghost_vars, used_ids >>

\* service.validate_payload(payload), then _check_cancel()  # before starting
process_job_validate(w) ==
    /\ w_pc[w] = "validate"
    /\ \/ Raise(w, MsgInvalid)
       \/ IF is_set(w_event[w])
          THEN Raise(w, CancellationError)
          ELSE Goto(w, "set_running") /\ UNCHANGED w_exc
    /\ UNCHANGED << store_vars, clock, boot_vars, pool_vars, sched_vars, w_job, w_event, w_result,
                    w_error, child, child_sent, event_queue, http_vars, ghost_vars,
                    used_ids >>

\* update_job(job_id, status="running", ..., started_at=now); run_process.start()
process_job_set_running(w) ==
    /\ w_pc[w] = "set_running"
    /\ jobs' = update_job(jobs, w_job[w],
                          [ status |-> "running", message |-> MsgRunning,
                            started_at |-> clock ])
    /\ child' = [ child EXCEPT ![w] = "alive" ]
    /\ Goto(w, "poll")
    /\ UNCHANGED << progress_events, log_entries, clock, boot_vars, pool_vars, sched_vars, w_job,
                    w_event, w_result, w_error, w_exc, child_sent, event_queue,
                    http_vars, ghost_vars, used_ids >>

process_job_poll_no_terminate(w) ==
    /\ w_pc[w] = "poll"
    /\ IF child[w] = "alive"
       THEN IF is_set(w_event[w])
            THEN /\ Raise(w, CancellationError)
                 /\ UNCHANGED child
            ELSE /\ Goto(w, "drain")
                 /\ UNCHANGED << w_exc, child >>
       ELSE /\ Goto(w, "final_drain")
            /\ UNCHANGED << w_exc, child >>
    /\ UNCHANGED << store_vars, clock, boot_vars, pool_vars, sched_vars, w_job, w_event, w_result,
                    w_error, child_sent, event_queue, http_vars, ghost_vars, used_ids >>

\* while run_process.is_alive(): _check_cancel(); run_process.join(timeout=...)
\* A cancel seen here leaves through except BaseException, which terminates the child.
process_job_poll(w) ==
    /\ w_pc[w] = "poll"
    /\ IF child[w] = "alive"
       THEN IF is_set(w_event[w])
            THEN /\ Raise(w, CancellationError)
                 /\ child' = [ child EXCEPT ![w] = "killed" ]
            ELSE /\ Goto(w, "drain")
                 /\ UNCHANGED << w_exc, child >>
       ELSE /\ Goto(w, "final_drain")
            /\ UNCHANGED << w_exc, child >>
    /\ UNCHANGED << store_vars, clock, boot_vars, pool_vars, sched_vars, w_job, w_event, w_result,
                    w_error, child_sent, event_queue, http_vars, ghost_vars, used_ids >>

\* One iteration of _drain_subprocess_events: get_nowait() and the event's branch.
\* A Job Store call that raises is logged and the loop goes on.
drain_subprocess_events(w, after) ==
    IF event_queue[w] = << >>
    THEN /\ Goto(w, after)
         /\ UNCHANGED << store_vars, w_result, w_error, event_queue >>
    ELSE LET event == Head(event_queue[w])
             stored == event.type = "progress"
                       /\ ~ ProgressKeyTaken(progress_events, w_job[w], clock)
         IN
         /\ event_queue' = [ event_queue EXCEPT ![w] = Tail(@) ]
         /\ jobs' = IF stored
                    THEN record_progress(jobs, w_job[w], EvProgressName)
                    ELSE jobs
         /\ progress_events' = IF stored
                               THEN InsertProgress(progress_events, w_job[w], clock)
                               ELSE progress_events
         /\ IF event.type = "log"
            THEN log_entries' \in append_log(log_entries, w_job[w], event.level)
            ELSE UNCHANGED log_entries
         /\ w_result' = [ w_result EXCEPT ![w] =
                             IF event.type = "result" THEN event.result ELSE @ ]
         /\ w_error' = [ w_error EXCEPT ![w] = @ \/ event.type = "error" ]
         /\ UNCHANGED w_pc

process_job_drain(w) ==
    /\ w_pc[w] = "drain"
    /\ drain_subprocess_events(w, "poll")
    /\ UNCHANGED << clock, boot_vars, pool_vars, sched_vars, w_job, w_event, w_exc, child,
                    child_sent, http_vars, ghost_vars, used_ids >>

process_job_final_drain_once(w) ==
    /\ w_pc[w] = "final_drain"
    /\ Goto(w, "decide")
    /\ UNCHANGED << store_vars, w_result, w_error, event_queue >>
    /\ UNCHANGED << clock, boot_vars, pool_vars, sched_vars, w_job, w_event, w_exc, child,
                    child_sent, http_vars, ghost_vars, used_ids >>

process_job_final_drain(w) ==
    /\ w_pc[w] = "final_drain"
    /\ drain_subprocess_events(w, "decide")
    /\ UNCHANGED << clock, boot_vars, pool_vars, sched_vars, w_job, w_event, w_exc, child,
                    child_sent, http_vars, ghost_vars, used_ids >>

\* The checks after the final drain, the last of them _check_cancel().
process_job_decide(w) ==
    /\ w_pc[w] = "decide"
    /\ IF w_error[w] THEN Raise(w, MsgChildError)
       ELSE IF child[w] = "exit1" /\ w_result[w] = None THEN Raise(w, MsgExitCode)
       ELSE IF w_result[w] = None THEN Raise(w, MsgNoResult)
       ELSE IF is_set(w_event[w]) THEN Raise(w, CancellationError)
       ELSE Goto(w, "set_success") /\ UNCHANGED w_exc
    /\ UNCHANGED << store_vars, clock, boot_vars, pool_vars, sched_vars, w_job, w_event, w_result,
                    w_error, child, child_sent, event_queue, http_vars, ghost_vars,
                    used_ids >>

\* update_job(job_id, status="success", ..., completed_at=now, result=result_dict)
process_job_set_success(w) ==
    /\ w_pc[w] = "set_success"
    /\ jobs' = update_job(jobs, w_job[w],
                          [ status |-> "success", message |-> MsgSuccess,
                            completed_at |-> clock, result |-> w_result[w] ])
    /\ Goto(w, "done")
    /\ UNCHANGED << progress_events, log_entries, clock, boot_vars, pool_vars, sched_vars, w_job,
                    w_event, w_result, w_error, w_exc, child, child_sent, event_queue,
                    http_vars, ghost_vars, used_ids >>

\* The store after process_job's except BaseException clause has handled exc.
ExceptWrite(js, job_id, exc, now) ==
    IF exc = CancellationError
    THEN delete_job(js, job_id)
    ELSE update_job(js, job_id,
                    [ status |-> "failed",
                      message |-> IF exc \in ShutdownExceptions THEN MsgShutdown(exc) ELSE exc,
                      completed_at |-> now ])

ExceptEvents(table, job_id, exc) ==
    IF exc = CancellationError THEN DeleteEvents(table, job_id) ELSE table

ExceptLogs(logs, job_id, exc) ==
    IF exc = CancellationError THEN DeleteLogs(logs, job_id) ELSE logs

process_job_except(w) ==
    /\ w_pc[w] = "except"
    /\ jobs' = ExceptWrite(jobs, w_job[w], w_exc[w], clock)
    /\ progress_events' = ExceptEvents(progress_events, w_job[w], w_exc[w])
    /\ log_entries' = ExceptLogs(log_entries, w_job[w], w_exc[w])
    /\ Goto(w, "done")
    /\ UNCHANGED << clock, boot_vars, pool_vars, sched_vars, w_job, w_event, w_result, w_error,
                    w_exc, child, child_sent, event_queue, http_vars, ghost_vars,
                    used_ids >>

worker_mark_job_done_no_finally(w) ==
    /\ w_pc[w] = "done"
    /\ IF w_exc[w] \in ShutdownExceptions
       THEN UNCHANGED sched_vars
       ELSE mark_job_done(w_job[w])
    /\ Goto(w, IF w_exc[w] \in ShutdownExceptions THEN "dead" ELSE "loop")
    /\ w_job' = [ w_job EXCEPT ![w] = None ]
    /\ w_event' = [ w_event EXCEPT ![w] = NoEvent ]
    /\ w_result' = [ w_result EXCEPT ![w] = None ]
    /\ w_error' = [ w_error EXCEPT ![w] = FALSE ]
    /\ w_exc' = [ w_exc EXCEPT ![w] = None ]
    /\ child' = [ child EXCEPT ![w] = "none" ]
    /\ child_sent' = [ child_sent EXCEPT ![w] = 0 ]
    /\ event_queue' = [ event_queue EXCEPT ![w] = << >> ]
    /\ cancelled_running' = cancelled_running \ {w_job[w]}
    /\ UNCHANGED << store_vars, clock, boot_vars, pool_vars, http_vars, cancelled_pending,
                    used_ids >>

\* finally: self._mark_job_done(job_id); the locals of process_job are gone.
\* SystemExit and KeyboardInterrupt pass the except Exception clauses: the thread ends.
worker_mark_job_done(w) ==
    /\ w_pc[w] = "done"
    /\ mark_job_done(w_job[w])
    /\ Goto(w, IF w_exc[w] \in ShutdownExceptions THEN "dead" ELSE "loop")
    /\ w_job' = [ w_job EXCEPT ![w] = None ]
    /\ w_event' = [ w_event EXCEPT ![w] = NoEvent ]
    /\ w_result' = [ w_result EXCEPT ![w] = None ]
    /\ w_error' = [ w_error EXCEPT ![w] = FALSE ]
    /\ w_exc' = [ w_exc EXCEPT ![w] = None ]
    /\ child' = [ child EXCEPT ![w] = "none" ]
    /\ child_sent' = [ child_sent EXCEPT ![w] = 0 ]
    /\ event_queue' = [ event_queue EXCEPT ![w] = << >> ]
    /\ cancelled_running' = cancelled_running \ {w_job[w]}
    /\ UNCHANGED << store_vars, clock, boot_vars, pool_vars, http_vars, cancelled_pending,
                    used_ids >>

(***************************************************************************)
(* The child process (_run_service_in_subprocess).                         *)
(***************************************************************************)
ChildPut(w, event) == event_queue' = [ event_queue EXCEPT ![w] = Append(@, event) ]

ProgressEvent == [ type |-> "progress", level |-> None, result |-> None ]
LogEvent(level) == [ type |-> "log", level |-> level, result |-> None ]
ResultEvent(result) == [ type |-> "result", level |-> None, result |-> result ]
ErrorEvent == [ type |-> "error", level |-> None, result |-> None ]

ChildFrame == UNCHANGED << store_vars, clock, boot_vars, pool_vars, sched_vars, w_pc, w_job,
                           w_event, w_result, w_error, w_exc, http_vars, ghost_vars,
                           used_ids >>

\* progress_callback
child_emit(w) ==
    /\ child[w] = "alive"
    /\ child_sent[w] < MaxChildEvents
    /\ ChildPut(w, ProgressEvent)
    /\ child_sent' = [ child_sent EXCEPT ![w] = @ + 1 ]
    /\ UNCHANGED child
    /\ ChildFrame

\* _SubprocessLogHandler.emit: a record of the child's "dspy" logger
child_log(w, level) ==
    /\ child[w] = "alive"
    /\ child_sent[w] < MaxChildEvents
    /\ ChildPut(w, LogEvent(level))
    /\ child_sent' = [ child_sent EXCEPT ![w] = @ + 1 ]
    /\ UNCHANGED child
    /\ ChildFrame

\* service.run returned: the result event, then exit code 0
child_result(w) ==
    /\ child[w] = "alive"
    /\ ChildPut(w, ResultEvent(RunResult))
    /\ child' = [ child EXCEPT ![w] = "exit0" ]
    /\ UNCHANGED child_sent
    /\ ChildFrame

\* service.run_grid_search returned a response in which every pair failed
child_result_all_pairs_failed(w) ==
    /\ child[w] = "alive"
    /\ ChildPut(w, ResultEvent(GridResultAllPairsFailed))
    /\ child' = [ child EXCEPT ![w] = "exit0" ]
    /\ UNCHANGED child_sent
    /\ ChildFrame

\* except BaseException: the error event, then exit code 0
child_error(w) ==
    /\ child[w] = "alive"
    /\ ChildPut(w, ErrorEvent)
    /\ child' = [ child EXCEPT ![w] = "exit0" ]
    /\ UNCHANGED child_sent
    /\ ChildFrame

\* the child is killed from outside: a non-zero exit code and no event
child_crash(w) ==
    /\ child[w] = "alive"
    /\ child' = [ child EXCEPT ![w] = "exit1" ]
    /\ UNCHANGED << child_sent, event_queue >>
    /\ ChildFrame

(***************************************************************************)
(* HTTP handlers (core/api/app.py), one Job Store or scheduler call a step.*)
(***************************************************************************)
Respond(h, op, code) ==
    /\ h_resp' = [ h_resp EXCEPT ![h] = code ]
    /\ h_op' = [ h_op EXCEPT ![h] = op ]
    /\ h_pc' = [ h_pc EXCEPT ![h] = "idle" ]
    /\ h_job' = [ h_job EXCEPT ![h] = None ]

Continue(h, op, job_id, pc) ==
    /\ h_resp' = [ h_resp EXCEPT ![h] = 0 ]
    /\ h_op' = [ h_op EXCEPT ![h] = op ]
    /\ h_pc' = [ h_pc EXCEPT ![h] = pc ]
    /\ h_job' = [ h_job EXCEPT ![h] = job_id ]

Accepting(h) == phase = "serving" /\ h_pc[h] = "idle"

FreshId == CHOOSE j \in JobIds \ used_ids : TRUE

\* POST /run with a JSON body: 422 when the body does not validate; else
\* create_job and set_payload_overview, then submit_job, which is
\* update_job(payload=payload.model_dump(mode="json")) and enqueue_job; 201.
\* Nothing else knows the new id before the response, so the three calls are
\* one step.
http_submit_run(h, body) ==
    /\ Accepting(h)
    /\ JobIds \ used_ids # {}
    /\ IF ~ Validates(body)
       THEN /\ Respond(h, "submit", 422)
            /\ UNCHANGED << jobs, used_ids, sched_vars >>
       ELSE /\ jobs' = update_job(create_job(jobs, FreshId, clock), FreshId,
                                  [ payload |-> model_dump(RunRequest(body), FALSE) ])
            /\ used_ids' = used_ids \cup {FreshId}
            /\ enqueue_job(FreshId)
            /\ Respond(h, "submit", 201)
    /\ UNCHANGED << progress_events, log_entries, clock, boot_vars, pool_vars, worker_vars, ghost_vars >>

\* POST /run as the test suite sends it
http_submit_job(h) == http_submit_run(h, BASE_PAYLOAD)

\* GET /jobs/{job_id}/payload: 404 for an unknown job or an empty payload
http_get_job_payload(h, job_id) ==
    /\ Accepting(h)
    /\ IF ~ job_exists(jobs, job_id) THEN Respond(h, "payload", 404)
       ELSE IF jobs[job_id].payload = NoPayload THEN Respond(h, "payload", 404)
       ELSE Respond(h, "payload", 200)
    /\ UNCHANGED << store_vars, clock, boot_vars, pool_vars, sched_vars, worker_vars,
                    ghost_vars, used_ids >>

\* JobPayloadResponse.payload: the payload column as stored
payload_response(js, job_id) == js[job_id].payload

\* A client posts the payload it got from GET /jobs/{job_id}/payload back to
\* POST /run, unchanged.
client_resubmit(h, job_id) ==
    /\ job_exists(jobs, job_id)
    /\ jobs[job_id].payload # NoPayload
    /\ http_submit_run(h, payload_response(jobs, job_id))

\* The cancel handler without its terminal-state check.
http_cancel_job_get_unguarded(h, job_id) ==
    /\ Accepting(h)
    /\ IF ~ job_exists(jobs, job_id) THEN Respond(h, "cancel", 404)
       ELSE Continue(h, "cancel", job_id, "cancel_signal")
    /\ UNCHANGED << store_vars, clock, boot_vars, pool_vars, sched_vars, worker_vars, ghost_vars,
                    used_ids >>

\* POST /jobs/{id}/cancel: get_job, 404 if unknown, 409 if terminal
http_cancel_job_get(h, job_id) ==
    /\ Accepting(h)
    /\ IF ~ job_exists(jobs, job_id) THEN Respond(h, "cancel", 404)
       ELSE IF status_to_job_status(jobs[job_id].status) \in TERMINAL_STATUSES
            THEN Respond(h, "cancel", 409)
            ELSE Continue(h, "cancel", job_id, "cancel_signal")
    /\ UNCHANGED << store_vars, clock, boot_vars, pool_vars, sched_vars, worker_vars, ghost_vars,
                    used_ids >>

\* if worker: worker.cancel_job(job_id)
http_cancel_job_signal(h) ==
    /\ h_pc[h] = "cancel_signal"
    /\ worker_cancel_job(h_job[h])
    /\ Continue(h, "cancel", h_job[h], "cancel_write")
    /\ cancelled_pending' = IF h_job[h] \in Range(pending_jobs)
                            THEN cancelled_pending \cup {h_job[h]}
                            ELSE cancelled_pending
    /\ cancelled_running' =
         IF \E w \in Workers : w_job[w] = h_job[h] /\ child[w] = "alive"
         THEN cancelled_running \cup {h_job[h]}
         ELSE cancelled_running
    /\ UNCHANGED << store_vars, clock, boot_vars, pool_vars, worker_vars, used_ids >>

\* update_job(job_id, status="cancelled", message="Cancelled by user", completed_at=now)
http_cancel_job_write(h) ==
    /\ h_pc[h] = "cancel_write"
    /\ jobs' = update_job(jobs, h_job[h],
                          [ status |-> "cancelled", message |-> MsgCancelled,
                            completed_at |-> clock ])
    /\ Respond(h, "cancel", 200)
    /\ UNCHANGED << progress_events, log_entries, clock, boot_vars, pool_vars, sched_vars, worker_vars,
                    ghost_vars, used_ids >>

\* The delete handler without its terminal-state check.
http_delete_job_get_unguarded(h, job_id) ==
    /\ Accepting(h)
    /\ IF ~ job_exists(jobs, job_id) THEN Respond(h, "delete", 404)
       ELSE Continue(h, "delete", job_id, "delete")
    /\ UNCHANGED << store_vars, clock, boot_vars, pool_vars, sched_vars, worker_vars, ghost_vars,
                    used_ids >>

\* DELETE /jobs/{id}: get_job, 404 if unknown, 409 unless terminal
http_delete_job_get(h, job_id) ==
    /\ Accepting(h)
    /\ IF ~ job_exists(jobs, job_id) THEN Respond(h, "delete", 404)
       ELSE IF status_to_job_status(jobs[job_id].status) \notin TERMINAL_STATUSES
            THEN Respond(h, "delete", 409)
            ELSE Continue(h, "delete", job_id, "delete")
    /\ UNCHANGED << store_vars, clock, boot_vars, pool_vars, sched_vars, worker_vars, ghost_vars,
                    used_ids >>

\* job_store.delete_job(job_id); 200
http_delete_job_delete(h) ==
    /\ h_pc[h] = "delete"
    /\ jobs' = delete_job(jobs, h_job[h])
    /\ progress_events' = DeleteEvents(progress_events, h_job[h])
    /\ log_entries' = DeleteLogs(log_entries, h_job[h])
    /\ Respond(h, "delete", 200)
    /\ UNCHANGED << clock, boot_vars, pool_vars, sched_vars, worker_vars, ghost_vars, used_ids >>

(***************************************************************************)
(* The service.                                                            *)
(***************************************************************************)
Next ==
    \/ lifespan_recover_orphaned
    \/ lifespan_recover_pending
    \/ get_worker_start
    \/ get_worker_enqueue
    \/ lifespan_yield
    \/ \E w \in Workers : worker_loop(w)
    \/ \E w \in Workers : process_job_get_event(w)
    \/ \E w \in Workers : process_job_check_cancel(w)
    \/ \E w \in Workers : process_job_load(w)
    \/ \E w \in Workers : process_job_set_validating(w)
    \/ \E w \in Workers : process_job_validate(w)
    \/ \E w \in Workers : process_job_set_running(w)
    \/ \E w \in Workers : process_job_poll(w)
    \/ \E w \in Workers : process_job_drain(w)
    \/ \E w \in Workers : process_job_final_drain(w)
    \/ \E w \in Workers : process_job_decide(w)
    \/ \E w \in Workers : process_job_set_success(w)
    \/ \E w \in Workers : process_job_except(w)
    \/ \E w \in Workers : worker_mark_job_done(w)
    \/ \E w \in Workers : child_emit(w)
    \/ \E w \in Workers : child_result(w)
    \/ \E w \in Workers : child_error(w)
    \/ \E w \in Workers : child_crash(w)
    \/ \E h \in Handlers : http_submit_job(h)
    \/ \E h \in Handlers, j \in JobIds : http_cancel_job_get(h, j)
    \/ \E h \in Handlers : http_cancel_job_signal(h)
    \/ \E h \in Handlers : http_cancel_job_write(h)
    \/ \E h \in Handlers, j \in JobIds : http_delete_job_get(h, j)
    \/ \E h \in Handlers : http_delete_job_delete(h)

Spec == Init /\ [][Next]_vars

(***************************************************************************)
(* The startup sequence alone, over every database of two jobs, at any     *)
(* time and with either pool size.                                         *)
(***************************************************************************)
InitStartup ==
    \E db \in Databases(JobIds), concurrency \in {1, DEFAULT_WORKER_CONCURRENCY},
       now \in 1..MaxClock :
        InitWith(db, concurrency, now)

NextStartup ==
    \/ lifespan_recover_orphaned
    \/ lifespan_recover_pending
    \/ get_worker_start
    \/ get_worker_enqueue
    \/ lifespan_yield
    \/ Tick

SpecStartup == InitStartup /\ [][NextStartup]_vars

(***************************************************************************)
(* Properties.                                                             *)
(***************************************************************************)
NonTerminal == JobStatus \ TERMINAL_STATUSES

\* C1: terminal monotonicity.  Once a job's stored status is success, failed
\* or cancelled, no step changes the status, completed_at, result or message
\* of its row, for as long as the row exists.
TerminalMonotonicity ==
    [][\A j \in DOMAIN jobs \cap DOMAIN jobs' :
          jobs[j].status \in TERMINAL_STATUSES =>
              /\ jobs'[j].status = jobs[j].status
              /\ jobs'[j].completed_at = jobs[j].completed_at
              /\ jobs'[j].result = jobs[j].result
              /\ jobs'[j].message = jobs[j].message]_vars

\* C2: a worker that caught the cancellation leaves the job's row in the
\* store, with status cancelled, the message "Cancelled by user", completed_at
\* set and the payload still there.
CancelledJobRetained ==
    [][\A w \in Workers :
          ( /\ w_pc[w] = "except"
            /\ w_pc'[w] = "done"
            /\ w_exc[w] = CancellationError
            /\ w_job[w] \in DOMAIN jobs ) =>
              /\ w_job[w] \in DOMAIN jobs'
              /\ jobs'[w_job[w]].status = "cancelled"
              /\ jobs'[w_job[w]].message = MsgCancelled
              /\ jobs'[w_job[w]].completed_at # 0
              /\ jobs'[w_job[w]].payload = jobs[w_job[w]].payload]_vars

\* C3: the stored status of a job moves along pending -> (validating |
\* running) -> terminal: never from a terminal value to validating or running,
\* never from running to validating or pending, into validating only from
\* pending.
StatusOrder ==
    [][\A j \in DOMAIN jobs \cap DOMAIN jobs' :
          LET old == jobs[j].status
              new == jobs'[j].status
          IN  old # new =>
                /\ old \in TERMINAL_STATUSES => new \notin {"validating", "running"}
                /\ old = "running" => new \notin {"validating", "pending"}
                /\ new = "validating" => old = "pending"]_vars

\* C4: a job whose cancel was accepted while its child ran: once the worker
\* has seen the flag in its poll loop, terminated the child and left
\* process_job, the job's stored status is cancelled.
RunningCancelEndsCancelled ==
    \A w \in Workers :
        ( /\ w_pc[w] = "done"
          /\ child[w] = "killed"
          /\ w_job[w] \in cancelled_running ) =>
            /\ w_job[w] \in DOMAIN jobs
            /\ jobs[w_job[w]].status = "cancelled"

\* C5: a job that cancel_job took out of the pending queue is never popped:
\* it is not queued, not in process, no worker holds it (so no child runs for
\* it), and its status is neither validating nor running.
PendingCancelNeverStarts ==
    \A j \in cancelled_pending :
        /\ j \notin Range(pending_jobs)
        /\ j \notin processing_jobs
        /\ \A w \in Workers : w_job[w] # j
        /\ j \in DOMAIN jobs => jobs[j].status \notin {"validating", "running"}

\* C5 witness: the cancelled job's row says cancelled and the worker, idle
\* again with an empty queue, has taken the job recovered at startup to success.
PendingCancelWitness ==
    \E j \in cancelled_pending, k \in recovered :
        /\ j \in DOMAIN jobs
        /\ jobs[j].status = "cancelled"
        /\ k # j
        /\ k \in DOMAIN jobs
        /\ jobs[k].status = "success"
        /\ pending_jobs = << >>
        /\ \A w \in Workers : w_pc[w] \in {"loop", "unstarted"}

\* C6: a job that was pending at startup stays on its way to a terminal
\* status: its row is not removed while it is still pending, validating or
\* running (a row removed before a terminal status can never reach one).
RecoveredJobNotLost ==
    [][\A j \in recovered :
          (j \in DOMAIN jobs /\ j \notin DOMAIN jobs') =>
              jobs[j].status \in TERMINAL_STATUSES]_vars

\* C7: the recover_orphaned_jobs step rewrites exactly the running and
\* validating rows to failed / "Job interrupted by service restart" /
\* completed_at = now, leaves every other row as it was, and returns the
\* number of rows it rewrote.
OrphanRecovery ==
    [][(phase = "boot" /\ phase' = "orphans") =>
          /\ DOMAIN jobs' = DOMAIN jobs
          /\ \A j \in DOMAIN jobs :
                IF jobs[j].status \in {"running", "validating"}
                THEN jobs'[j] = [ jobs[j] EXCEPT !.status = "failed",
                                                 !.message = MsgRestart,
                                                 !.completed_at = clock ]
                ELSE jobs'[j] = jobs[j]
          /\ orphan_count' =
               Cardinality({ j \in DOMAIN jobs :
                               jobs[j].status \in {"running", "validating"} })]_vars

\* C7 witness: recovery has just rewritten one orphan and left a pending row.
OrphanRecoveryWitness ==
    /\ phase = "orphans"
    /\ orphan_count = 1
    /\ \E j, k \in DOMAIN jobs :
          /\ jobs[j].status = "failed"
          /\ jobs[j].message = MsgRestart
          /\ jobs[j].completed_at = clock
          /\ clock > 1
          /\ jobs[k].status = "pending"
          /\ jobs[k].completed_at = 0

\* C8: whatever exception ends process_job, the except clause leaves the
\* job's row in a terminal status.
ExceptionEndsTerminal ==
    [][\A w \in Workers :
          ( /\ w_pc[w] = "except"
            /\ w_pc'[w] = "done"
            /\ w_job[w] \in DOMAIN jobs ) =>
              /\ w_job[w] \in DOMAIN jobs'
              /\ jobs'[w_job[w]].status \in TERMINAL_STATUSES]_vars

\* C9: a cancel request for a job whose stored status is terminal is answered
\* 409 and changes neither the store nor the queue, the processing set or the
\* cancel flags.
CancelTerminalConflict ==
    [][\A h \in Handlers, j \in JobIds :
          ( /\ http_cancel_job_get(h, j)
            /\ j \in DOMAIN jobs
            /\ jobs[j].status \in TERMINAL_STATUSES ) =>
              /\ h_resp'[h] = 409
              /\ h_pc'[h] = "idle"
              /\ UNCHANGED << store_vars, sched_vars >>]_vars

\* C9 witness: a cancel request has been answered 409.
CancelTerminalWitness ==
    \E h \in Handlers :
        /\ h_op[h] = "cancel"
        /\ h_resp[h] = 409
        /\ \E j \in DOMAIN jobs : jobs[j].status \in TERMINAL_STATUSES

StartedPool ==
    [ running |-> TRUE, threads |-> Workers, alive |-> [ w \in Workers |-> TRUE ],
      last_activity |-> [ w \in Workers |-> NoActivity ], pending |-> << >> ]

threads_alive_any(pool) ==
    \E w \in pool.threads : pool.alive[w]

threads_alive(pool) ==
    IF pool.threads = {} THEN FALSE ELSE \A w \in pool.threads : pool.alive[w]

Max(S) == CHOOSE x \in S : \A y \in S : x >= y

\* seconds_since_last_activity(), None when no thread has touched yet
HasActivity(pool) == \E w \in Workers : pool.last_activity[w] # NoActivity

seconds_since_last_activity(pool, now) ==
    now - Max({ pool.last_activity[w] : w \in Workers })

\* stop(): nothing when not running; else _running = False, the queue is
\* cleared, the threads are joined with a timeout and the list is cleared.
stop(pool) ==
    IF ~ pool.running THEN pool
    ELSE [ pool EXCEPT !.running = FALSE, !.threads = {}, !.pending = << >> ]

PoolFrame == UNCHANGED << store_vars, clock, sched_vars, worker_vars, boot_vars,
                          ghost_vars, used_ids, lock_vars >>

\* get_worker(), called by the lifespan of an application of this process
get_worker ==
    /\ IF global_worker = NoWorker \/ ~ threads_alive(pools[global_worker])
       THEN /\ pool_count < MaxPools
            /\ pool_count' = pool_count + 1
            /\ pools' = [ pools EXCEPT ![pool_count + 1] = StartedPool ]
            /\ global_worker' = pool_count + 1
            /\ app_worker' = pool_count + 1
       ELSE /\ app_worker' = global_worker
            /\ UNCHANGED << pools, pool_count, global_worker >>
    /\ UNCHANGED http_vars
    /\ PoolFrame

\* _worker_loop: self._touch_activity(worker_id), at the start of the loop, for
\* each job taken, at the idle heartbeat and while a child runs
touch_activity(p, w) ==
    /\ pools[p].alive[w]
    /\ pools[p].running
    /\ pools' = [ pools EXCEPT ![p].last_activity[w] = clock ]
    /\ UNCHANGED << pool_count, global_worker, app_worker, http_vars >>
    /\ PoolFrame

\* _worker_loop leaves its while loop: self._running is False
worker_loop_exit(p, w) ==
    /\ pools[p].alive[w]
    /\ ~ pools[p].running
    /\ pools' = [ pools EXCEPT ![p].alive[w] = FALSE ]
    /\ UNCHANGED << pool_count, global_worker, app_worker, http_vars >>
    /\ PoolFrame

\* _process_job re-raises SystemExit or KeyboardInterrupt, which the except
\* Exception clauses of _worker_loop do not catch: the thread ends
worker_loop_dies(p, w) ==
    /\ pools[p].alive[w]
    /\ pools[p].running
    /\ pools' = [ pools EXCEPT ![p].alive[w] = FALSE ]
    /\ UNCHANGED << pool_count, global_worker, app_worker, http_vars >>
    /\ PoolFrame

\* _graceful_shutdown on SIGTERM: worker.stop()
graceful_shutdown ==
    /\ app_worker # NoWorker
    /\ pools[app_worker].running
    /\ pools' = [ pools EXCEPT ![app_worker] = stop(@) ]
    /\ UNCHANGED << pool_count, global_worker, app_worker, http_vars >>
    /\ PoolFrame

reset_worker_for_tests ==
    /\ global_worker # NoWorker
    /\ pools' = [ pools EXCEPT ![global_worker] = stop(@) ]
    /\ global_worker' = NoWorker
    /\ UNCHANGED << pool_count, app_worker, http_vars >>
    /\ PoolFrame

\* GET /health, for a value of WORKER_STALE_THRESHOLD
healthcheck_threshold(h, threshold) ==
    /\ h_pc[h] = "idle"
    /\ IF app_worker = NoWorker \/ ~ threads_alive(pools[app_worker])
       THEN Respond(h, "health", 503)
       ELSE IF /\ HasActivity(pools[app_worker])
               /\ seconds_since_last_activity(pools[app_worker], clock) > threshold
            THEN Respond(h, "health", 503)
            ELSE Respond(h, "health", 200)
    /\ UNCHANGED pool_vars
    /\ PoolFrame

healthcheck(h) == healthcheck_threshold(h, WORKER_STALE_THRESHOLD)

InitPool == InitWith([ k \in {} |-> NewRow(1) ], DEFAULT_WORKER_CONCURRENCY, 1)

NextPool ==
    \/ get_worker
    \/ \E p \in PoolIds, w \in Workers : touch_activity(p, w)
    \/ \E p \in PoolIds, w \in Workers : worker_loop_exit(p, w)
    \/ \E p \in PoolIds, w \in Workers : worker_loop_dies(p, w)
    \/ graceful_shutdown
    \/ reset_worker_for_tests
    \/ \E h \in Handlers : healthcheck(h)
    \/ TickTo(MaxHealthClock)

SpecPool == InitPool /\ [][NextPool]_vars

(***************************************************************************)
(* The Job Store on its own: LocalDBJobStore called directly, one call a   *)
(* step, for any job id, whether its row exists or not.                    *)
(***************************************************************************)
MaxLogRows == 2

service_vars == << sched_vars, worker_vars, http_vars, boot_vars, pool_vars, ghost_vars, used_ids >>

store_create_job(job_id) ==
    /\ job_id \notin DOMAIN jobs
    /\ jobs' = create_job(jobs, job_id, clock)
    /\ used_ids' = used_ids \cup {job_id}
    /\ UNCHANGED << progress_events, log_entries, clock, sched_vars, worker_vars,
                    http_vars, boot_vars, pool_vars, ghost_vars >>

store_record_progress(job_id) ==
    /\ ~ ProgressKeyTaken(progress_events, job_id, clock)
    /\ jobs' = record_progress(jobs, job_id, EvProgressName)
    /\ progress_events' = InsertProgress(progress_events, job_id, clock)
    /\ UNCHANGED << log_entries, clock, service_vars >>

store_append_log(job_id, level) ==
    /\ log_entries' \in append_log(log_entries, job_id, level)
    /\ UNCHANGED << jobs, progress_events, clock, service_vars >>

store_delete_job(job_id) ==
    /\ jobs' = delete_job(jobs, job_id)
    /\ progress_events' = DeleteEvents(progress_events, job_id)
    /\ log_entries' = DeleteLogs(log_entries, job_id)
    /\ UNCHANGED << clock, service_vars >>

InitStore == InitWith([ k \in {} |-> NewRow(1) ], 1, 1)

NextStore ==
    \/ \E j \in JobIds : store_create_job(j)
    \/ \E j \in JobIds : store_record_progress(j)
    \/ \E j \in JobIds, level \in LogLevels :
          log_entries[j][level] < MaxLogRows /\ store_append_log(j, level)
    \/ \E j \in JobIds : store_delete_job(j)
    \/ Tick

SpecStore == InitStore /\ [][NextStore]_vars

\* C11: a step that removes a job's row removes all its log rows and all its
\* progress rows in the same step, and changes no row of any other job.
DeleteCascade ==
    [][\A j \in JobIds :
          (j \in DOMAIN jobs /\ j \notin DOMAIN jobs') =>
              /\ progress_events'[j] = {}
              /\ log_entries'[j] = NoRows
              /\ \A k \in JobIds \ {j} :
                    /\ progress_events'[k] = progress_events[k]
                    /\ log_entries'[k] = log_entries[k]
                    /\ (k \in DOMAIN jobs) = (k \in DOMAIN jobs')
                    /\ k \in DOMAIN jobs => jobs'[k] = jobs[k]]_vars

\* C11 witness: a job once created has been deleted with nothing left of it, while the
\* other still has its row, two progress rows and log rows of both levels.
DeleteCascadeWitness ==
    \E j \in JobIds, k \in JobIds :
        /\ j # k
        /\ j \in used_ids
        /\ j \notin DOMAIN jobs
        /\ progress_events[j] = {}
        /\ log_entries[j] = NoRows
        /\ k \in DOMAIN jobs
        /\ jobs[k].created_at = 1
        /\ clock = MaxClock
        /\ Cardinality(progress_events[k]) = 2
        /\ \A level \in LogLevels : log_entries[k][level] > 0

(***************************************************************************)
(* The service with a clock that advances: every write reads the clock of  *)
(* the moment it is made.  The database starts with one job, submitted to  *)
(* an earlier process and still pending.                                  *)
(***************************************************************************)
InitTimed == InitWith([ k \in PreIds |-> StoredRow("pending", StoredPayload) ], 1, 1)

NextTimed ==
    \/ Next
    \/ Tick

SpecTimed == InitTimed /\ [][NextTimed]_vars

Set(t) == t # 0

\* C12: the timestamps a job row holds are ordered: created_at <= started_at
\* <= completed_at, and created_at <= completed_at when started_at is null.
TimestampCoherence ==
    \A j \in DOMAIN jobs :
        LET row == jobs[j] IN
        /\ Set(row.started_at) => row.created_at <= row.started_at
        /\ Set(row.completed_at) => row.created_at <= row.completed_at
        /\ (Set(row.started_at) /\ Set(row.completed_at)) =>
              row.started_at <= row.completed_at

\* C13: started_at is null while the job is pending, is set by the step that
\* first takes the status to validating or running, and never changes once set.
StartedAtLifecycle ==
    [][\A j \in DOMAIN jobs \cap DOMAIN jobs' :
          /\ jobs[j].status = "pending" => ~ Set(jobs[j].started_at)
          /\ ( /\ jobs[j].status = "pending"
               /\ jobs'[j].status \in {"validating", "running"} ) =>
                  Set(jobs'[j].started_at)
          /\ Set(jobs[j].started_at) => jobs'[j].started_at = jobs[j].started_at]_vars

(***************************************************************************)
(* The caps of the Job Store: a job's progress events recorded one after    *)
(* the other at successive clock readings, on a table that starts empty or *)
(* two rows short of full.                                                 *)
(***************************************************************************)
MaxEventClock == MAX_PROGRESS_EVENTS + 3

ProgressFill == {0, MAX_PROGRESS_EVENTS - 2}

InitProgressCap ==
    \E n \in ProgressFill :
        InitOn([ k \in PreIds |-> NewRow(1) ],
               [ j \in JobIds |-> IF j \in PreIds THEN 1..n ELSE {} ],
               [ j \in JobIds |-> NoRows ], 1, n + 1)

NextProgressCap ==
    \/ \E j \in PreIds : clock \notin progress_events[j] /\ store_record_progress(j)
    \/ \E j \in PreIds : clock \in progress_events[j] /\ TickTo(MaxEventClock)

SpecProgressCap == InitProgressCap /\ [][NextProgressCap]_vars

\* C14: a job never has more than MAX_PROGRESS_EVENTS progress events, and a
\* row that an insert removes is older than every row that stays.
ProgressCap ==
    [][\A j \in JobIds :
          /\ Cardinality(progress_events'[j]) <= MAX_PROGRESS_EVENTS
          /\ (progress_events'[j] # progress_events[j]) =>
                /\ clock \in progress_events'[j]
                /\ \A old \in progress_events[j] \ progress_events'[j] :
                      \A kept \in progress_events'[j] : old < kept]_vars

\* C14 witness: the table is full and its oldest rows have been evicted.
ProgressCapWitness ==
    \E j \in JobIds :
        /\ Cardinality(progress_events[j]) = MAX_PROGRESS_EVENTS
        /\ 1 \notin progress_events[j]
        /\ 2 \notin progress_events[j]
        /\ clock \in progress_events[j]

(***************************************************************************)
(* A job's log entries appended one after the other, of either level, on a *)
(* table that starts one row short of full.                                *)
(***************************************************************************)
InitLogCap ==
    InitOn([ k \in PreIds |-> NewRow(1) ],
           [ j \in JobIds |-> {} ],
           [ j \in JobIds |-> IF j \in PreIds
                              THEN [ NoRows EXCEPT !["INFO"] = MAX_LOG_ENTRIES - 1 ]
                              ELSE NoRows ], 1, 1)

NextLogCap ==
    \E j \in PreIds, level \in LogLevels : store_append_log(j, level)

SpecLogCap == InitLogCap /\ [][NextLogCap]_vars

\* C15: a job never has more than MAX_LOG_ENTRIES log entries.
LogCap ==
    \A j \in JobIds : LogCount(log_entries, j) <= MAX_LOG_ENTRIES

\* C15 witness: the table is full, and appends to the full table have
\* evicted rows that were there at the start.
LogCapWitness ==
    \E j \in JobIds :
        /\ LogCount(log_entries, j) = MAX_LOG_ENTRIES
        /\ log_entries[j]["INFO"] < MAX_LOG_ENTRIES - 2
        /\ log_entries[j]["ERROR"] > 2

(***************************************************************************)
(* The service with all that a child sends: its log records as well as its *)
(* progress events, and the result of a grid search in which every pair   *)
(* failed.  The database starts as in InitTimed.                           *)
(***************************************************************************)
NextRun ==
    \/ Next
    \/ \E w \in Workers, level \in LogLevels : child_log(w, level)
    \/ \E w \in Workers : child_result_all_pairs_failed(w)

SpecRun == InitTimed /\ [][NextRun]_vars

\* C16: a job that is failed with the error string its child reported has at
\* least one ERROR-level entry among its stored log entries.
FailedJobHasErrorLog ==
    \A j \in DOMAIN jobs :
        (jobs[j].status = "failed" /\ jobs[j].message = MsgChildError) =>
            log_entries[j]["ERROR"] > 0

\* C17: a job whose stored result is that of a grid search in which every
\* pair failed is failed, never success.
AllPairsFailedIsFailed ==
    \A j \in DOMAIN jobs :
        jobs[j].result = GridResultAllPairsFailed => jobs[j].status = "failed"

\* C18: GET /health answers 503 when the pool the application holds has no
\* thread list, or a thread of it that is not alive, or a most recent touch
\* older than WORKER_STALE_THRESHOLD; it answers 200 when every thread is
\* alive and the most recent touch is no older than that.
HealthReflectsLiveness ==
    [][\A h \in Handlers :
          healthcheck(h) =>
              LET held == app_worker # NoWorker
                  pool == pools[IF held THEN app_worker ELSE 1]
                  dead == \/ ~ held
                          \/ pool.threads = {}
                          \/ \E w \in pool.threads : ~ pool.alive[w]
                  touched == { w \in Workers : pool.last_activity[w] # NoActivity }
                  stale == /\ touched # {}
                           /\ \A w \in touched :
                                 clock - pool.last_activity[w] > WORKER_STALE_THRESHOLD
                  fresh == \E w \in touched :
                                 clock - pool.last_activity[w] <= WORKER_STALE_THRESHOLD
              IN  /\ (dead \/ stale) => h_resp'[h] = 503
                  /\ (~ dead /\ fresh) => h_resp'[h] = 200 /\ h_op'[h] = "health"]_vars

\* C18 witness: the only pool ever made has all its threads alive and was
\* never stopped, its last touch has grown stale, and /health answered 503.
HealthStaleWitness ==
    \E h \in Handlers :
        /\ h_op[h] = "health"
        /\ h_resp[h] = 503
        /\ pool_count = 1
        /\ app_worker = 1
        /\ pools[1].running
        /\ \A w \in Workers : pools[1].alive[w]
        /\ \E w \in Workers : pools[1].last_activity[w] # NoActivity
        /\ \A w \in Workers : clock - pools[1].last_activity[w] > WORKER_STALE_THRESHOLD

\* C19: get_worker returns the pool the module holds as long as one thread of
\* its thread list is alive, and puts a new pool in its place only when the
\* module holds none or no thread of the held pool is alive.
PoolKeptWhileAnyThreadAlive ==
    [][get_worker =>
          LET some_alive == /\ global_worker # NoWorker
                            /\ \E w \in pools[global_worker].threads :
                                  pools[global_worker].alive[w]
          IN  /\ some_alive => /\ global_worker' = global_worker
                               /\ app_worker' = global_worker
              /\ global_worker' # global_worker => ~ some_alive]_vars

BodyKeys == FieldNames \cup { Alias(name) : name \in FieldNames }

\* The bodies a client sends: each setting under its alias or under its
\* field name or not at all, as a ModelConfig or as null.
Bodies ==
    { body \in UNION { [ K -> {"config", "null"} ] : K \in SUBSET BodyKeys } :
        \A name \in FieldNames : ~ (name \in DOMAIN body /\ Alias(name) \in DOMAIN body) }

InitPayload == InitWith([ k \in {} |-> NewRow(1) ], 1, 1)

NextPayload ==
    \/ lifespan_recover_orphaned
    \/ lifespan_recover_pending
    \/ get_worker_start
    \/ lifespan_yield
    \/ \E h \in Handlers, body \in Bodies : http_submit_run(h, body)
    \/ \E h \in Handlers, j \in JobIds : http_get_job_payload(h, j)
    \/ \E h \in Handlers, j \in JobIds : client_resubmit(h, j)

SpecPayload == InitPayload /\ [][NextPayload]_vars

\* C21: for an accepted submission, the payload GET /jobs/{id}/payload returns
\* has every key the client sent, and POST /run accepts it back; a
\* resubmission of a returned payload is answered 201.
PayloadRoundTrip ==
    [][\A h \in Handlers :
          /\ \A body \in Bodies :
                (http_submit_run(h, body) /\ used_ids' # used_ids) =>
                    LET id == CHOOSE j \in used_ids' \ used_ids : TRUE
                        returned == payload_response(jobs', id)
                    IN  /\ DOMAIN body \subseteq DOMAIN returned
                        /\ Validates(returned)
          /\ \A j \in JobIds :
                client_resubmit(h, j) => h_resp'[h] = 201]_vars

(***************************************************************************)
(* The scheduler under any sequence of calls: enqueue_job and cancel_job   *)
(* for any job id at any moment of the pool's life, stop(), and two worker *)
(* threads that take jobs and run them.  Job j1 has a row and a payload,   *)
(* the other ids have none.                                                *)
(***************************************************************************)
MaxEvents == 3

SchedFrame == UNCHANGED << store_vars, clock, boot_vars, pool_vars, worker_vars,
                           http_vars, ghost_vars, used_ids >>

call_enqueue_job(job_id) ==
    /\ phase = "serving"
    /\ Len(events) < MaxEvents
    /\ enqueue_job(job_id)
    /\ SchedFrame

call_cancel_job(job_id) ==
    /\ phase = "serving"
    /\ worker_cancel_job(job_id)
    /\ SchedFrame

InitSched ==
    InitWith([ k \in PreIds |-> StoredRow("pending", StoredPayload) ],
             DEFAULT_WORKER_CONCURRENCY, 1)

NextSched ==
    \/ lifespan_recover_orphaned
    \/ lifespan_recover_pending
    \/ get_worker_start
    \/ get_worker_enqueue
    \/ lifespan_yield
    \/ \E j \in JobIds : call_enqueue_job(j)
    \/ \E j \in JobIds : call_cancel_job(j)
    \/ stop_flag
    \/ stop_clear
    \/ \E w \in Workers : worker_loop(w)
    \/ \E w \in Workers : process_job_get_event(w)
    \/ \E w \in Workers : process_job_check_cancel(w)
    \/ \E w \in Workers : process_job_load(w)
    \/ \E w \in Workers : process_job_set_validating(w)
    \/ \E w \in Workers : process_job_validate(w)
    \/ \E w \in Workers : process_job_set_running(w)
    \/ \E w \in Workers : process_job_poll(w)
    \/ \E w \in Workers : process_job_drain(w)
    \/ \E w \in Workers : process_job_final_drain(w)
    \/ \E w \in Workers : process_job_decide(w)
    \/ \E w \in Workers : process_job_set_success(w)
    \/ \E w \in Workers : process_job_except(w)
    \/ \E w \in Workers : worker_mark_job_done(w)
    \/ \E w \in Workers : child_result(w)
    \/ \E w \in Workers : child_error(w)

SpecSched == InitSched /\ [][NextSched]_vars

Owners(job_id) == { w \in Workers : w_job[w] = job_id }

\* C22: a job id is owned by at most one worker at a time: while a worker
\* holds it, between its pop and its mark_job_done, the id is in
\* processing_set and not in pending_queue, no other worker holds it, and at
\* most one child process runs for it.
SingleOwner ==
    \A j \in JobIds :
        /\ Cardinality(Owners(j)) <= 1
        /\ Owners(j) # {} => j \in processing_jobs /\ j \notin Range(pending_jobs)
        /\ Cardinality({ w \in Owners(j) : child[w] = "alive" }) <= 1

\* C22 witness: both workers hold a job, one of them with its child running,
\* after enqueue_job was called again for an id already in the pool.
SingleOwnerWitness ==
    \E w1, w2 \in Workers :
        /\ w1 # w2
        /\ w_job[w1] = "j1"
        /\ child[w1] = "alive"
        /\ w_job[w2] = "j2"
        /\ Len(events) = MaxEvents
        /\ pending_jobs = << >>

InPool(job_id) == job_id \in Range(pending_jobs) \/ job_id \in processing_jobs

\* C23: enqueue_job(job_id) appends the id and creates its cancel flag only
\* when the id is in neither pending_queue nor processing_set; for an id that
\* is already pending or being processed the call leaves pending_queue,
\* processing_set and the job's existing cancel flag unchanged.
EnqueueFrame ==
    [][\A j \in JobIds :
        call_enqueue_job(j) /\ InPool(j) =>
            /\ UNCHANGED << pending_jobs, processing_jobs >>
            /\ j \in DOMAIN cancel_events
            /\ cancel_events'[j] = cancel_events[j]]_vars

FlagSet(ce, ev, job_id) == job_id \in DOMAIN ce /\ ev[ce[job_id]]

\* C24: a cancel flag is set-once: once the flag of a job in the pool is set
\* it stays set while the job stays in the pool, cancel_job for a job being
\* processed sets the flag that the owning worker polls, and a second
\* cancel_job for the same job changes nothing.
CancelFlagSetOnce ==
    [][\A j \in JobIds :
        /\ InPool(j) /\ InPool(j)' /\ FlagSet(cancel_events, events, j)
               => FlagSet(cancel_events', events', j)
        /\ call_cancel_job(j) /\ j \in processing_jobs
               => \A w \in Owners(j) : w_event[w] # NoEvent => events'[w_event[w]]
        /\ call_cancel_job(j) /\ j \in processing_jobs
             /\ FlagSet(cancel_events, events, j)
               => UNCHANGED sched_vars]_vars

\* C25: after any sequence of enqueue, pop, cancel, mark-done and stop
\* operations a cancel flag exists only for job ids that are in pending_queue
\* or in processing_set.
FlagsOnlyInPool == \A j \in DOMAIN cancel_events : InPool(j)

Pos(seq, x) == CHOOSE i \in DOMAIN seq : seq[i] = x

child_result_then_error(w) ==
    /\ child[w] = "alive"
    /\ event_queue' = [ event_queue EXCEPT ![w] =
                          Append(Append(@, ResultEvent(RunResult)), ErrorEvent) ]
    /\ child' = [ child EXCEPT ![w] = "exit0" ]
    /\ UNCHANGED child_sent
    /\ ChildFrame

\* the result event, then the child ends with a non-zero exit code
child_result_then_crash(w) ==
    /\ child[w] = "alive"
    /\ ChildPut(w, ResultEvent(RunResult))
    /\ child' = [ child EXCEPT ![w] = "exit1" ]
    /\ UNCHANGED child_sent
    /\ ChildFrame

NextDecide ==
    \/ Next
    \/ \E w \in Workers : child_result_then_error(w)
    \/ \E w \in Workers : child_result_then_crash(w)

SpecDecide == Init /\ [][NextDecide]_vars

Exited(w) == child[w] \in {"exit0", "exit1"}

Decision(w) ==
    IF w_error[w] THEN MsgChildError
    ELSE IF w_result[w] = None
         THEN IF child[w] = "exit1" THEN MsgExitCode ELSE MsgNoResult
    ELSE IF is_set(w_event[w]) THEN CancellationError
    ELSE None

\* C28: after the child exits the terminal write is failed with the child's
\* message if an Error event was drained (even with a Result), failed if no
\* Result was drained (naming a non-zero exit code), cancelled if the cancel
\* flag is set at the final check although a Result was drained, and
\* otherwise success with the drained result stored.
TerminalWriteDecision ==
    [][\A w \in Workers :
        /\ process_job_decide(w) =>
              /\ w_exc'[w] = Decision(w)
              /\ Decision(w) = None <=> w_pc'[w] = "set_success"
        /\ process_job_except(w) /\ Exited(w) /\ job_exists(jobs, w_job[w]) =>
              /\ job_exists(jobs', w_job[w])
              /\ jobs'[w_job[w]].status =
                    IF w_exc[w] = CancellationError THEN "cancelled" ELSE "failed"
              /\ w_exc[w] # CancellationError => jobs'[w_job[w]].message = w_exc[w]
        /\ process_job_set_success(w) /\ job_exists(jobs, w_job[w]) =>
              /\ jobs'[w_job[w]].status = "success"
              /\ jobs'[w_job[w]].result = w_result[w]]_vars

(***************************************************************************)
(* stop() against the worker loop, whose test of self._running and call of *)
(* _get_next_job() are two steps.                                          *)
(***************************************************************************)
WorkerFrame == UNCHANGED << store_vars, clock, boot_vars, pool_vars, w_event, w_result,
                            w_error, w_exc, child, child_sent, event_queue, http_vars,
                            ghost_vars, used_ids >>

\* while self._running:
worker_loop_test(w) ==
    /\ w_pc[w] = "loop"
    /\ Goto(w, IF running THEN "next_job" ELSE "exited")
    /\ UNCHANGED << sched_vars, w_job >>
    /\ WorkerFrame

\* job_id = self._get_next_job(); without a job: time.sleep(poll_interval)
worker_get_next_job(w) ==
    /\ w_pc[w] = "next_job"
    /\ IF pending_jobs # << >>
       THEN /\ w_job' = [ w_job EXCEPT ![w] = Head(pending_jobs) ]
            /\ pending_jobs' = Tail(pending_jobs)
            /\ processing_jobs' = processing_jobs \cup {Head(pending_jobs)}
            /\ Goto(w, "get_event")
       ELSE /\ Goto(w, "loop")
            /\ UNCHANGED << w_job, pending_jobs, processing_jobs >>
    /\ UNCHANGED << running, cancel_events, events >>
    /\ WorkerFrame

process_job(w) ==
    \/ process_job_get_event(w)
    \/ process_job_check_cancel(w)
    \/ process_job_load(w)
    \/ process_job_set_validating(w)
    \/ process_job_validate(w)
    \/ process_job_set_running(w)
    \/ process_job_poll(w)
    \/ process_job_drain(w)
    \/ process_job_final_drain(w)
    \/ process_job_decide(w)
    \/ process_job_set_success(w)
    \/ process_job_except(w)

worker_thread(w) ==
    \/ worker_loop_test(w)
    \/ worker_get_next_job(w)
    \/ process_job(w)
    \/ worker_mark_job_done(w)

child_exit(w) == child_result(w) \/ child_error(w)

NextStop ==
    \/ lifespan_recover_orphaned
    \/ lifespan_recover_pending
    \/ get_worker_start
    \/ get_worker_enqueue
    \/ lifespan_yield
    \/ \E j \in JobIds : call_enqueue_job(j)
    \/ stop_flag
    \/ stop_clear
    \/ \E w \in Workers : worker_loop_test(w)
    \/ \E w \in Workers : worker_get_next_job(w)
    \/ \E w \in Workers : process_job_get_event(w)
    \/ \E w \in Workers : process_job_check_cancel(w)
    \/ \E w \in Workers : process_job_load(w)
    \/ \E w \in Workers : process_job_set_validating(w)
    \/ \E w \in Workers : process_job_validate(w)
    \/ \E w \in Workers : process_job_set_running(w)
    \/ \E w \in Workers : process_job_poll(w)
    \/ \E w \in Workers : process_job_drain(w)
    \/ \E w \in Workers : process_job_final_drain(w)
    \/ \E w \in Workers : process_job_decide(w)
    \/ \E w \in Workers : process_job_set_success(w)
    \/ \E w \in Workers : process_job_except(w)
    \/ \E w \in Workers : worker_mark_job_done(w)
    \/ \E w \in Workers : child_result(w)
    \/ \E w \in Workers : child_error(w)

\* A started thread keeps running and a started child ends.
SpecStop ==
    /\ InitSched
    /\ [][NextStop]_vars
    /\ \A w \in Workers : WF_vars(worker_thread(w)) /\ WF_vars(child_exit(w))

\* C29: stop() sets running = false and, under the lock, empties
\* pending_queue and sets every cancel flag; after it no worker takes a job
\* from pending_queue, and every worker whose child terminates leaves its
\* loop.
StopWindsDown ==
    /\ [][stop_clear =>
            /\ ~ running'
            /\ pending_jobs' = << >>
            /\ \A j \in DOMAIN cancel_events' : FlagSet(cancel_events', events', j)]_vars
    /\ [][phase = "stopped" => processing_jobs' \subseteq processing_jobs]_vars
    /\ (phase = "stopped") ~> (\A w \in Workers : w_pc[w] = "exited")

\* C29 witness: stop() has returned while one worker runs a child and the
\* other has passed the test of self._running and not yet called
\* _get_next_job().
StopWindsDownWitness ==
    /\ phase = "stopped"
    /\ \E w1, w2 \in Workers :
          /\ child[w1] = "alive"
          /\ is_set(w_event[w1])
          /\ w_pc[w2] = "next_job"

(***************************************************************************)
(* SystemExit or KeyboardInterrupt raised in the worker thread while it is *)
(* inside the try block of _process_job.                                   *)
(***************************************************************************)
InTry == {"check_cancel", "load", "set_validating", "validate", "set_running", "poll",
          "drain", "final_drain", "decide", "set_success"}

process_job_shutdown(w, exc) ==
    /\ w_pc[w] \in InTry
    /\ Raise(w, exc)
    /\ child' = [ child EXCEPT ![w] = IF @ = "alive" THEN "killed" ELSE @ ]
    /\ UNCHANGED << store_vars, clock, boot_vars, pool_vars, sched_vars, w_job, w_event, w_result,
                    w_error, child_sent, event_queue, http_vars, ghost_vars, used_ids >>

NextShutdown ==
    \/ NextSched
    \/ \E w \in Workers, exc \in ShutdownExceptions : process_job_shutdown(w, exc)

SpecShutdown == InitSched /\ [][NextShutdown]_vars

\* C30: when SystemExit or KeyboardInterrupt reaches process_job the job is
\* written failed with a message starting 'Job interrupted by service
\* shutdown' and completed_at set, the exception is re-raised out of
\* process_job, and mark_job_done still removes the job from processing_set
\* and discards its cancel flag.
ShutdownInterrupt ==
    [][\A w \in Workers :
        /\ process_job_except(w) /\ w_exc[w] \in ShutdownExceptions =>
              /\ job_exists(jobs, w_job[w]) =>
                    /\ jobs'[w_job[w]].status = "failed"
                    /\ jobs'[w_job[w]].message \in { MsgShutdown(e) : e \in ShutdownExceptions }
                    /\ Set(jobs'[w_job[w]].completed_at)
              /\ w_exc'[w] = w_exc[w]
              /\ w_pc'[w] = "done"
        /\ worker_mark_job_done(w) /\ w_exc[w] \in ShutdownExceptions =>
              /\ w_job[w] \notin processing_jobs'
              /\ w_job[w] \notin DOMAIN cancel_events'
              /\ w_pc'[w] = "dead"]_vars

\* C30 witness: a thread has ended on the re-raised exception; its job is
\* stored failed and has left the pool.
ShutdownInterruptWitness ==
    \E w \in Workers :
        /\ w_pc[w] = "dead"
        /\ job_exists(jobs, "j1")
        /\ jobs["j1"].status = "failed"
        /\ jobs["j1"].message = MsgShutdown(KeyboardInterrupt)
        /\ "j1" \notin processing_jobs
        /\ "j1" \notin DOMAIN cancel_events

(***************************************************************************)
(* The locks.  Of each call the model keeps the order in which it enters   *)
(* and leaves the with blocks of the four locks and where it starts, joins *)
(* or terminates a process or thread.  A threading.Lock is not reentrant.  *)
(***************************************************************************)
Acquire(lock) == << "acquire", lock >>
Release(lock) == << "release", lock >>
Subprocess == << "subprocess", None >>
With(lock, body) == << Acquire(lock) >> \o body \o << Release(lock) >>

\* every LocalDBJobStore method: with self._lock: session work
store_call_locks == With("store_lock", << >>)
\* enqueue_job, _get_next_job, _mark_job_done, cancel_job, queue_size, active_jobs
queue_call_locks == With("queue_lock", << >>)
\* _touch_activity, seconds_since_last_activity
activity_call_locks == With("activity_lock", << >>)
\* submit_job: update_job(payload=...), then enqueue_job
submit_job_locks == store_call_locks \o queue_call_locks
\* stop(): the queue is cleared under the lock, the threads are joined outside it
stop_locks == queue_call_locks \o << Subprocess >>
\* get_worker: under _worker_lock a pool is constructed, started and filled
get_worker_locks == With("worker_lock", << Subprocess >> \o queue_call_locks)
reset_worker_for_tests_locks == With("worker_lock", stop_locks)
\* lifespan: recover_orphaned_jobs, recover_pending_jobs, get_worker; then stop()
lifespan_locks == store_call_locks \o store_call_locks \o get_worker_locks \o stop_locks
\* POST /run: create_job, get_worker, submit_job
http_submit_locks == store_call_locks \o get_worker_locks \o submit_job_locks
\* POST /jobs/{id}/cancel: get_job, worker.cancel_job, update_job
http_cancel_locks_store_inside ==
    store_call_locks \o With("queue_lock", store_call_locks)
http_cancel_locks == store_call_locks \o queue_call_locks \o store_call_locks
\* GET /health and GET /queue
http_health_locks == activity_call_locks
http_queue_locks == queue_call_locks \o queue_call_locks
\* _worker_loop with one job: touch, pop, touch, the cancel event, the store
\* writes, the child and its drains, the terminal write, _mark_job_done
worker_loop_locks ==
    activity_call_locks \o queue_call_locks \o activity_call_locks \o queue_call_locks
    \o store_call_locks \o store_call_locks \o store_call_locks \o << Subprocess >>
    \o activity_call_locks \o << Subprocess >> \o store_call_locks
    \o << Subprocess >> \o store_call_locks \o queue_call_locks

CallsOf(t) ==
    IF t = "lifespan" THEN {lifespan_locks, reset_worker_for_tests_locks}
    ELSE IF t = "worker" THEN {worker_loop_locks}
    ELSE {http_submit_locks, http_cancel_locks, http_health_locks, http_queue_locks}

LockFrame == UNCHANGED << store_vars, clock, sched_vars, worker_vars, boot_vars, ghost_vars,
                          used_ids, http_vars, pools, pool_count, global_worker,
                          app_worker, latest_metrics, metrics_call, settings,
                          idle_cycles >>

lock_call(t) ==
    /\ lock_steps[t] = << >>
    /\ \E call \in CallsOf(t) : lock_steps' = [ lock_steps EXCEPT ![t] = call ]
    /\ UNCHANGED lock_holder
    /\ LockFrame

lock_acquire(t) ==
    /\ lock_steps[t] # << >>
    /\ Head(lock_steps[t])[1] = "acquire"
    /\ lock_holder[Head(lock_steps[t])[2]] = None
    /\ lock_holder' = [ lock_holder EXCEPT ![Head(lock_steps[t])[2]] = t ]
    /\ lock_steps' = [ lock_steps EXCEPT ![t] = Tail(@) ]
    /\ LockFrame

lock_release(t) ==
    /\ lock_steps[t] # << >>
    /\ Head(lock_steps[t])[1] = "release"
    /\ lock_holder' = [ lock_holder EXCEPT ![Head(lock_steps[t])[2]] = None ]
    /\ lock_steps' = [ lock_steps EXCEPT ![t] = Tail(@) ]
    /\ LockFrame

lock_subprocess(t) ==
    /\ lock_steps[t] # << >>
    /\ Head(lock_steps[t]) = Subprocess
    /\ lock_steps' = [ lock_steps EXCEPT ![t] = Tail(@) ]
    /\ UNCHANGED lock_holder
    /\ LockFrame

NextLocks ==
    \/ \E t \in LockThreads : lock_call(t)
    \/ \E t \in LockThreads : lock_acquire(t)
    \/ \E t \in LockThreads : lock_release(t)
    \/ \E t \in LockThreads : lock_subprocess(t)

SpecLocks == InitPool /\ [][NextLocks]_vars

Held(t) == { l \in Locks : lock_holder[l] = t }
Wanted(t) ==
    IF lock_steps[t] # << >> /\ Head(lock_steps[t])[1] = "acquire"
    THEN {Head(lock_steps[t])[2]} ELSE {}
LockRank(l) ==
    IF l = "worker_lock" THEN 1 ELSE IF l = "queue_lock" THEN 2 ELSE 3

\* C31: the scheduler mutex is never held across a Job Store call or a
\* subprocess operation, the locks are acquired in an acyclic order, and no
\* set of threads waits for locks that only its own members hold.
LockOrder ==
    /\ \A t \in LockThreads :
          lock_holder["queue_lock"] = t =>
              /\ lock_holder["store_lock"] # t
              /\ "store_lock" \notin Wanted(t)
              /\ lock_steps[t] # << >> /\ Head(lock_steps[t]) # Subprocess
    /\ \A t \in LockThreads : \A h \in Held(t), l \in Wanted(t) :
          LockRank(h) < LockRank(l)
    /\ \A T \in SUBSET LockThreads \ {{}} :
          \E t \in T : \A l \in Wanted(t) : lock_holder[l] \notin T

\* C31 witness: a handler waits for the scheduler lock, which the lifespan
\* holds inside get_worker, while the worker is inside a Job Store call.
LockOrderWitness ==
    /\ lock_holder["worker_lock"] = "lifespan"
    /\ lock_holder["queue_lock"] = "lifespan"
    /\ lock_holder["store_lock"] = "worker"
    /\ \E t \in {"handler1", "handler2"} : Wanted(t) = {"queue_lock"}

(***************************************************************************)
(* The pools and their queues: the pool POST /run obtains from get_worker, *)
(* the pool the other handlers reach through the variable worker, and the  *)
(* threads that take jobs from a pool's queue.                             *)
(***************************************************************************)
\* the pool get_worker(job_store) returns to a handler, and whether it is new
GlobalUsable == global_worker # NoWorker /\ threads_alive(pools[global_worker])

\* POST /run: current_worker = get_worker(...); current_worker.submit_job(...)
http_submit_get_worker(h, job_id) ==
    /\ h_pc[h] = "idle"
    /\ app_worker # NoWorker
    /\ \A p \in PoolIds : job_id \notin Range(pools[p].pending)
    /\ IF GlobalUsable
       THEN /\ pools' = [ pools EXCEPT ![global_worker].pending = Append(@, job_id) ]
            /\ UNCHANGED << pool_count, global_worker >>
       ELSE /\ pool_count < MaxPools
            /\ pool_count' = pool_count + 1
            /\ pools' = [ pools EXCEPT ![pool_count + 1] =
                            [ StartedPool EXCEPT !.pending = << job_id >> ] ]
            /\ global_worker' = pool_count + 1
    /\ Respond(h, "submit", 201)
    /\ UNCHANGED app_worker
    /\ PoolFrame

\* POST /jobs/{id}/cancel: if worker: worker.cancel_job(job_id)
http_cancel_worker(h, job_id) ==
    /\ h_pc[h] = "idle"
    /\ app_worker # NoWorker
    /\ pools' = [ pools EXCEPT ![app_worker].pending = Without(@, job_id) ]
    /\ Respond(h, "cancel", 200)
    /\ UNCHANGED << pool_count, global_worker, app_worker >>
    /\ PoolFrame

\* _worker_loop of a live thread: job_id = self._get_next_job()
pool_get_next_job(p, w) ==
    /\ pools[p].alive[w]
    /\ pools[p].running
    /\ pools[p].pending # << >>
    /\ pools' = [ pools EXCEPT ![p].pending = Tail(@) ]
    /\ UNCHANGED << pool_count, global_worker, app_worker, http_vars >>
    /\ PoolFrame

NextPoolJobs ==
    \/ get_worker
    \/ \E p \in PoolIds, w \in Workers : worker_loop_exit(p, w)
    \/ \E p \in PoolIds, w \in Workers : worker_loop_dies(p, w)
    \/ graceful_shutdown
    \/ reset_worker_for_tests
    \/ \E h \in Handlers, j \in JobIds : http_submit_get_worker(h, j)
    \/ \E h \in Handlers, j \in JobIds : http_cancel_worker(h, j)
    \/ \E p \in PoolIds, w \in Workers : pool_get_next_job(p, w)

SpecPoolJobs == InitPool /\ [][NextPoolJobs]_vars

\* C32: the pool into which POST /run enqueues a job is the pool that
\* POST /jobs/{id}/cancel signals and that GET /queue and GET /health
\* inspect, also after get_worker has replaced the module-global pool.
SamePoolForAllHandlers ==
    [][\A h \in Handlers, j \in JobIds :
          http_submit_get_worker(h, j) =>
              /\ global_worker' = app_worker
              /\ j \in Range(pools'[app_worker].pending)]_vars

\* C33: no queued job is lost while the service runs: a job waiting in a
\* pool's queue always has a live thread of that pool, whose loop is still
\* running, to pop it.
NoQueuedJobStranded ==
    \A p \in PoolIds :
        pools[p].pending # << >> =>
            /\ pools[p].running
            /\ \E w \in pools[p].threads : pools[p].alive[w]

\* Both jobs are stored pending when the process starts.
InitChildren ==
    InitWith([ k \in JobIds |-> StoredRow("pending", StoredPayload) ],
             DEFAULT_WORKER_CONCURRENCY, 1)

SpecChildren == InitChildren /\ [][NextShutdown]_vars

LiveChildren == { w \in Workers : child[w] = "alive" }

FinalDrainBeforeTerminalWrite ==
    [][\A w \in Workers :
          (process_job_set_success(w) \/ (process_job_except(w) /\ Exited(w)))
              => event_queue[w] = << >>]_vars

\* C35 witness: the child has exited, its progress event has been stored by
\* the drain, and the worker is about to write success.
FinalDrainWitness ==
    \E w \in Workers :
        /\ w_pc[w] = "set_success"
        /\ child[w] = "exit0"
        /\ child_sent[w] = MaxChildEvents
        /\ event_queue[w] = << >>
        /\ progress_events[w_job[w]] # {}

\* C36: recording a progress event never overwrites the job's message with
\* the event name: a drain of the child's events, whose only write to the
\* jobs table is record_progress, changes no job's message or status.
ProgressKeepsMessage ==
    [][\A w \in Workers :
          (process_job_drain(w) \/ process_job_final_drain(w)) =>
              \A j \in DOMAIN jobs :
                  /\ j \in DOMAIN jobs'
                  /\ jobs'[j].message = jobs[j].message
                  /\ jobs'[j].status = jobs[j].status]_vars

\* C37: record_progress for a job id that has no row in the store inserts no
\* progress event row and changes no job.
RecordProgressMissingJobNoOp ==
    [][\A j \in JobIds :
          store_record_progress(j) /\ ~ job_exists(jobs, j) =>
              /\ progress_events' = progress_events
              /\ jobs' = jobs]_vars

\* C38: append_log for a job id that has no row in the store inserts no log
\* row.
AppendLogMissingJobNoOp ==
    [][\A j \in JobIds, level \in LogLevels :
          store_append_log(j, level) /\ ~ job_exists(jobs, j) =>
              log_entries' = log_entries]_vars

(***************************************************************************)
(* latest_metrics: update_job(latest_metrics=m) and record_progress(...,   *)
(* metrics=m) read the job's map and write the merged map back, inside     *)
(* with self._lock.  A call is two steps, the read and the commit.         *)
(***************************************************************************)
MetricKeys == {"score", "step"}
MetricValues == 1..2
Metrics == UNION { [ keys -> MetricValues ] : keys \in SUBSET MetricKeys }
MetricsThreads == {"handler1", "worker"}

\* merged = dict(job.latest_metrics); merged.update(value)
Merged(old, value) ==
    [ k \in DOMAIN old \cup DOMAIN value |-> IF k \in DOMAIN value THEN value[k] ELSE old[k] ]

MetricsFrame == UNCHANGED << progress_events, log_entries, clock, sched_vars, worker_vars,
                             boot_vars, ghost_vars, used_ids, http_vars, pools, pool_count,
                             global_worker, app_worker, lock_steps, settings,
                             idle_cycles >>

\* create_job: latest_metrics={}
metrics_create_job(job_id) ==
    /\ lock_holder["store_lock"] = None
    /\ ~ job_exists(jobs, job_id)
    /\ jobs' = create_job(jobs, job_id, clock)
    /\ latest_metrics' = [ latest_metrics EXCEPT ![job_id] = NoMetrics ]
    /\ UNCHANGED << lock_holder, metrics_call >>
    /\ MetricsFrame

\* with self._lock: job = session.query(JobModel)...first()
metrics_read_unlocked(t, op, job_id, m) ==
    /\ metrics_call[t] = NoCall
    /\ job_exists(jobs, job_id)
    /\ metrics_call' = [ metrics_call EXCEPT ![t] =
                           [ op |-> op, job_id |-> job_id, metrics |-> m,
                             read |-> latest_metrics[job_id] ] ]
    /\ UNCHANGED << jobs, latest_metrics, lock_holder >>
    /\ MetricsFrame

metrics_read(t, op, job_id, m) ==
    /\ metrics_call[t] = NoCall
    /\ lock_holder["store_lock"] = None
    /\ job_exists(jobs, job_id)
    /\ metrics_call' = [ metrics_call EXCEPT ![t] =
                           [ op |-> op, job_id |-> job_id, metrics |-> m,
                             read |-> latest_metrics[job_id] ] ]
    /\ lock_holder' = [ lock_holder EXCEPT !["store_lock"] = t ]
    /\ UNCHANGED << jobs, latest_metrics >>
    /\ MetricsFrame

\* update_job: merged when job.latest_metrics is not empty, else the value;
\* record_progress: merged when metrics is not empty; then session.commit()
metrics_commit(t) ==
    /\ metrics_call[t] # NoCall
    /\ LET call == metrics_call[t]
           written ==
               IF call.op = "update_job"
               THEN IF call.read # NoMetrics THEN Merged(call.read, call.metrics)
                    ELSE call.metrics
               ELSE IF call.metrics # NoMetrics THEN Merged(call.read, call.metrics)
                    ELSE call.read
       IN  latest_metrics' = [ latest_metrics EXCEPT ![call.job_id] = written ]
    /\ metrics_call' = [ metrics_call EXCEPT ![t] = NoCall ]
    /\ lock_holder' = [ lock_holder EXCEPT !["store_lock"] = None ]
    /\ UNCHANGED jobs
    /\ MetricsFrame

NextMetrics ==
    \/ \E j \in JobIds : metrics_create_job(j)
    \/ \E t \in MetricsThreads, op \in {"update_job", "record_progress"},
          j \in JobIds, m \in Metrics : metrics_read(t, op, j, m)
    \/ \E t \in MetricsThreads : metrics_commit(t)

SpecMetrics == InitStore /\ [][NextMetrics]_vars

\* C39: latest_metrics is merged, never replaced: a call that commits leaves
\* the job's map equal to the map before the commit overridden by the call's
\* metrics, and no key of a job's map is ever removed, under any
\* interleaving of concurrent callers.
MetricsMerged ==
    [][/\ \A t \in MetricsThreads :
              metrics_commit(t) =>
                  latest_metrics'[metrics_call[t].job_id] =
                      Merged(latest_metrics[metrics_call[t].job_id],
                             metrics_call[t].metrics)
       /\ \A j \in JobIds :
              DOMAIN latest_metrics[j] \subseteq DOMAIN latest_metrics'[j]]_vars

\* C39 witness: one caller is inside its call while the other waits, and the
\* job's map holds both keys from two different calls.
MetricsMergedWitness ==
    /\ metrics_call["worker"] # NoCall
    /\ metrics_call["worker"].op = "record_progress"
    /\ metrics_call["worker"].job_id = "j1"
    /\ metrics_call["handler1"] = NoCall
    /\ DOMAIN latest_metrics["j1"] = MetricKeys
    /\ latest_metrics["j1"]["score"] # latest_metrics["j1"]["step"]

(***************************************************************************)
(* An idle pool: the threads find no job, sleep WORKER_POLL_INTERVAL and   *)
(* touch their activity every HEARTBEAT_IDLE_CYCLES idle cycles; GET       *)
(* /health compares the latest touch with WORKER_STALE_THRESHOLD.  The     *)
(* threads of a pool are started together and sleep in step.               *)
(***************************************************************************)
\* the values of WORKER_POLL_INTERVAL (0.05, 2.0, 5.0) and of
\* WORKER_STALE_THRESHOLD (30, 600) that the repository configures
PollIntervals == { 1, 2 * TicksPerSecond, 5 * TicksPerSecond }
StaleThresholds == { 30 * TicksPerSecond, 600 * TicksPerSecond }

IdleFrame == UNCHANGED << store_vars, sched_vars, worker_vars, boot_vars, ghost_vars,
                          used_ids, lock_holder, lock_steps, latest_metrics,
                          metrics_call >>

\* os.getenv at create_app and get_worker: the environment is set before
setenv(poll_interval, threshold) ==
    /\ pool_count = 0
    /\ settings = DefaultSettings
    /\ settings' = [ poll_interval |-> poll_interval, stale_threshold |-> threshold ]
    /\ UNCHANGED << clock, pools, pool_count, global_worker, app_worker, idle_cycles,
                    http_vars >>
    /\ IdleFrame

\* lifespan: worker = get_worker(...)
idle_get_worker ==
    /\ get_worker
    /\ pool_count = 0

InLoop(w) == pools[1].alive[w] /\ pools[1].last_activity[w] # NoActivity
HeartbeatDue(w) ==
    /\ idle_cycles[w] > 0
    /\ idle_cycles[w] % HEARTBEAT_IDLE_CYCLES = 0
    /\ pools[1].last_activity[w] < clock

\* _worker_loop: idle_cycles = 0; self._touch_activity(worker_id)
idle_loop_start(w) ==
    /\ pool_count = 1
    /\ pools[1].alive[w]
    /\ pools[1].last_activity[w] = NoActivity
    /\ pools' = [ pools EXCEPT ![1].last_activity[w] = clock ]
    /\ UNCHANGED << clock, pool_count, global_worker, app_worker, settings, idle_cycles,
                    http_vars >>
    /\ IdleFrame

\* job_id is None: time.sleep(self._poll_interval); idle_cycles += 1
idle_sleep ==
    /\ pool_count = 1
    /\ \A w \in Workers : InLoop(w) /\ ~ HeartbeatDue(w)
    /\ \A w \in Workers : idle_cycles[w] < MaxHeartbeats * HEARTBEAT_IDLE_CYCLES
    /\ clock' = clock + settings.poll_interval
    /\ idle_cycles' = [ w \in Workers |-> idle_cycles[w] + 1 ]
    /\ UNCHANGED << pools, pool_count, global_worker, app_worker, settings, http_vars >>
    /\ IdleFrame

\* if idle_cycles % 150 == 0: self._touch_activity(worker_id)
idle_heartbeat(w) ==
    /\ pool_count = 1
    /\ InLoop(w)
    /\ HeartbeatDue(w)
    /\ pools' = [ pools EXCEPT ![1].last_activity[w] = clock ]
    /\ UNCHANGED << clock, pool_count, global_worker, app_worker, settings, idle_cycles,
                    http_vars >>
    /\ IdleFrame

idle_healthcheck(h) == healthcheck_threshold(h, settings.stale_threshold)

NextIdle ==
    \/ \E poll_interval \in PollIntervals, threshold \in StaleThresholds :
          setenv(poll_interval, threshold)
    \/ idle_get_worker
    \/ \E w \in Workers : idle_loop_start(w)
    \/ idle_sleep
    \/ \E w \in Workers : idle_heartbeat(w)
    \/ \E h \in Handlers : idle_healthcheck(h)

SpecIdle == InitPool /\ [][NextIdle]_vars

\* C40: an idle pool whose threads are all alive never fails the health
\* check: the time since the latest liveness touch of the idle workers stays
\* within WORKER_STALE_THRESHOLD and GET /health answers 200, for the default
\* settings and for every configured pair of values.
IdlePoolStaysHealthy ==
    [][\A h \in Handlers :
          idle_healthcheck(h) /\ app_worker # NoWorker /\ threads_alive(pools[app_worker])
              => h_resp'[h] = 200]_vars

\* the same for the default settings (2.0 s, 600 s) alone
IdlePoolHealthyByDefault ==
    [][\A h \in Handlers :
          /\ idle_healthcheck(h)
          /\ settings = DefaultSettings
          /\ app_worker # NoWorker /\ threads_alive(pools[app_worker])
          => h_resp'[h] = 200]_vars

====
